---- MODULE Spec2Model ----
(***************************************************************************)
(* A model of the cognita dataflow core: Caps, Pads, Elements, the         *)
(* detector chain, the narrator / parser / extractor / sink elements and   *)
(* the linear Pipeline.  Elements and pads live in tables and are named by *)
(* index: element e is kind[e], its i-th pad is pads[e][i], and a pad is   *)
(* referred to by the pair <<e, i>>.  Every call of the program is         *)
(* synchronous, so a top-level call (with every nested handler it reaches) *)
(* is one action; the nested calls are computed by the recursive operators *)
(* below on a call state `st`, which carries the mutable fields, the       *)
(* invocations made so far (trace) and the exception in flight (err).      *)
(***************************************************************************)
EXTENDS Integers, Sequences, FiniteSets, TLC

VARIABLES
    kind,       \* kind[e]: the class of element e
    pads,       \* pads[e]: Element._pads, a sequence of pad records
    ecaps,      \* ecaps[e]: Narrator._caps of element e
    outputs,    \* outputs[e]: SilentSink.outputs of element e
    pipe,       \* Pipeline.elements, or <<>> before a pipeline is built
    pc,         \* "idle" | "running": position of Pipeline.run
    runIdx,     \* index in pipe of the next element to process
    last,       \* the last top-level call: operation, arguments, error, result
    trace,      \* handler invocations made during the last top-level call
    raised,     \* every exception raised during the last top-level call
    nops,       \* number of dataflow calls made so far
    sample,     \* the input of a function under study (detector outcomes, bytes,
                \* Caps arguments), or the Caps objects constructed so far
    detres      \* detector spec: result of HeaderAnalyzer.detect

vars == <<kind, pads, ecaps, outputs, pipe, pc, runIdx, last, trace, raised,
          nops, sample, detres>>

(***************************************************************************)
(* Bounds of the model.                                                    *)
(***************************************************************************)
MaxPads == 2        \* pads an element may own
MaxOps == 2         \* dataflow calls explored after construction
MaxMsgs == 2        \* messages in a mailbox file
MaxDetectors == 4   \* length of a detector chain

(***************************************************************************)
(* Values.  Every value is a tagged record, so that payloads of different  *)
(* Python types can be compared.                                           *)
(***************************************************************************)
NoneV == [tag |-> "none"]

NoParams == [count |-> -1, fingerprint |-> ""]

Caps(media_type, name, uri, params) ==
    [tag |-> "caps", media_type |-> media_type, name |-> name, uri |-> uri,
     params |-> params]

IsCaps(v) == v.tag = "caps"

StrV(text, len) == [tag |-> "str", text |-> text, len |-> len]

BytesV(msg) == [tag |-> "bytes", msg |-> msg]

DictV(type_source, keys) == [tag |-> "dict", type_source |-> type_source, keys |-> keys]

\* Python truthiness of a payload value
Truthy(v) ==
    CASE v.tag = "none" -> FALSE
      [] v.tag = "str" -> v.len > 0
      [] v.tag = "dict" -> v.keys # {}
      [] OTHER -> TRUE

DOCUMENT_CAPS == Caps("document", "document", "urn:cognita:caps:document", NoParams)
IMAGE_CAPS == Caps("image", "image-photo", "urn:cognita:caps:image-photo", NoParams)
MBOX_CAPS == Caps("application/mbox", "application-mbox", "urn:cognita:caps:application-mbox", NoParams)
EML_CAPS == Caps("message/rfc822", "message-rfc822", "urn:cognita:caps:message-rfc822", NoParams)
TEXT_CAPS == Caps("text/plain", "plain-text", "urn:cognita:caps:plain-text", NoParams)
NARRATION_CAPS == Caps("text/plain", "plain-text", "urn:cognita:caps:text:machine-narrated", NoParams)
TURTLE_CAPS == Caps("text/turtle", "rdf-turtle", "urn:cognita:caps:rdf-turtle", NoParams)

SRC == "src"
SINK == "sink"
Directions == {SRC, SINK}

NoPeer == <<0, 0>>

\* Pad.__init__
NewPad(name, direction) ==
    [name |-> name, direction |-> direction, peer |-> NoPeer, caps |-> NoneV]

Elems == DOMAIN kind

PadRefs == {<<e, i>> : e \in Elems, i \in 1..MaxPads}

IsPad(p) == p[1] \in Elems /\ p[2] \in DOMAIN pads[p[1]]

NoError == "none"


(***************************************************************************)
(* Exceptions, named by class and message.                                 *)
(***************************************************************************)
ErrAlreadyLinked == "ValueError: pad already linked"
ErrSameDirection == "ValueError: pad directions must be opposite"
ErrPushNotSrc == "ValueError: push is only valid on src pads"
ErrSendCapsNotSrc == "ValueError: send_caps is only valid on src pads"
ErrNotLinked == "ValueError: pad is not linked"
ErrCapsType == "TypeError: caps event requires Caps payload"
ErrUnhandledEvent == "NotImplementedError: unhandled event"
ErrNotImplemented == "NotImplementedError"
ErrNegotiation == "CapsNegotiationError: TripleExtractor cannot handle caps"
ErrSourceOnly == "ValueError: SourceElement only provides src pads"
ErrSinkOnly == "ValueError: SinkElement only provides sink pads"
ErrSinkNoCaps == "RuntimeError: SilentSink requires upstream pad caps"
ErrImageNoCaps == "RuntimeError: ImageNarrator requires caps or URI payload"
ErrMissingResource == "FileNotFoundError: resource does not exist"
ErrExhausted == "TypeFinderError: Unknown format; Ollama fallback not configured"
ErrTypeFinderOllama == "TypeFinderError: Ollama error"
ErrOllamaUnavailable == "OllamaUnavailableError"
ErrOllamaMalformed == "OllamaError: Ollama returned a non-JSON answer"
ErrOllama == "OllamaError"

\* the classes caught by `except OllamaError`
OllamaErrors == {ErrOllamaUnavailable, ErrOllamaMalformed, ErrOllama}

LinkErrors == {ErrAlreadyLinked, ErrSameDirection}

(***************************************************************************)
(* The call state.                                                         *)
(***************************************************************************)
CallState ==
    [pads |-> pads, ecaps |-> ecaps, outputs |-> outputs,
     trace |-> <<>>, raised |-> <<>>, err |-> NoError]

Raise(st, e) == [st EXCEPT !.err = e, !.raised = Append(@, e)]

Call(name, p, event, payload) ==
    [call |-> name, elem |-> p[1], pad |-> p[2], event |-> event, payload |-> payload]

Log(st, ev) == [st EXCEPT !.trace = Append(@, ev)]

PadOf(st, p) == st.pads[p[1]][p[2]]

StorePadCaps(st, p, caps) == [st EXCEPT !.pads[p[1]][p[2]].caps = caps]

\* the rest of a handler runs only when the call so far has raised nothing
Failed(st) == st.err # NoError

NarratorKinds == {"text_narrator", "mailbox_narrator"}

\* DiscreteDataSource ("source") and TimeSeriesDataSource ("stream_source")
SourceKinds == {"source", "stream_source"}

Kinds ==
    {"element", "mbox_parser", "extractor", "sink", "image_narrator"}
    \cup SourceKinds \cup NarratorKinds

RECURSIVE HandleEvent(_, _, _, _, _)
RECURSIVE OnBuffer(_, _, _, _)

(***************************************************************************)
(* Pad                                                                     *)
(***************************************************************************)
\* Pad.send_caps
SendCaps(st, env, p, caps) ==
    IF PadOf(st, p).direction # SRC THEN Raise(st, ErrSendCapsNotSrc)
    ELSE IF PadOf(st, p).peer = NoPeer THEN Raise(st, ErrNotLinked)
    ELSE HandleEvent(st, env, PadOf(st, p).peer, "caps", caps)

\* a slip in set_caps: the caps are stored and the caps event is never sent
SetCapsNoPropagate(st, env, p, caps, propagate) == StorePadCaps(st, p, caps)

\* a slip in set_caps: the caps are stored once the event has gone through
SetCapsStoresLast(st, env, p, caps, propagate) ==
    IF propagate /\ PadOf(st, p).direction = SRC
    THEN IF Failed(SendCaps(st, env, p, caps)) THEN SendCaps(st, env, p, caps)
         ELSE StorePadCaps(SendCaps(st, env, p, caps), p, caps)
    ELSE StorePadCaps(st, p, caps)

\* Pad.set_caps
SetCaps(st, env, p, caps, propagate) ==
    LET s1 == StorePadCaps(st, p, caps)
    IN  IF propagate /\ PadOf(st, p).direction = SRC
        THEN SendCaps(s1, env, p, caps)
        ELSE s1

\* a slip in push: the payload is dropped on the way
PushDropsPayload(st, env, p, buffer) ==
    IF PadOf(st, p).direction # SRC THEN Raise(st, ErrPushNotSrc)
    ELSE IF PadOf(st, p).peer = NoPeer THEN Raise(st, ErrNotLinked)
    ELSE OnBuffer(st, env, PadOf(st, p).peer, NoneV)

\* Pad.push
Push(st, env, p, buffer) ==
    IF PadOf(st, p).direction # SRC THEN Raise(st, ErrPushNotSrc)
    ELSE IF PadOf(st, p).peer = NoPeer THEN Raise(st, ErrNotLinked)
    ELSE OnBuffer(st, env, PadOf(st, p).peer, buffer)

\* pad.push(buffer) as the statement after a call that ended in st
ThenPush(st, env, p, buffer) == IF Failed(st) THEN st ELSE Push(st, env, p, buffer)

(***************************************************************************)
(* Element                                                                 *)
(***************************************************************************)
\* a slip in handle_event: the payload is stored before it is validated
ElementHandleEventStoresFirst(st, p, event, payload) ==
    IF event = "caps"
    THEN IF ~IsCaps(payload) THEN Raise(StorePadCaps(st, p, payload), ErrCapsType)
         ELSE StorePadCaps(st, p, payload)
    ELSE Raise(st, ErrUnhandledEvent)

\* a slip in handle_event: the caps are checked and not kept
ElementHandleEventForgets(st, p, event, payload) ==
    IF event = "caps"
    THEN IF ~IsCaps(payload) THEN Raise(st, ErrCapsType)
         ELSE st
    ELSE Raise(st, ErrUnhandledEvent)

\* Element.handle_event
ElementHandleEvent(st, p, event, payload) ==
    IF event = "caps"
    THEN IF ~IsCaps(payload) THEN Raise(st, ErrCapsType)
         ELSE StorePadCaps(st, p, payload)
    ELSE Raise(st, ErrUnhandledEvent)

\* Element.on_buffer
ElementOnBuffer(st, p, buffer) == Raise(st, ErrNotImplemented)


\* the source pads of element e, in pad-creation order, from index k on
RECURSIVE PushDownstreamFrom(_, _, _, _, _)
\* Narrator._push_downstream / MboxParser._push_src: the loop from pad k on
PushDownstreamFrom(st, env, e, k, payload) ==
    IF st.err # NoError \/ k > Len(st.pads[e]) THEN st
    ELSE LET pad == st.pads[e][k]
             s1 == IF pad.direction = SRC /\ pad.peer # NoPeer
                   THEN OnBuffer(st, env, pad.peer, payload)
                   ELSE st
         IN  PushDownstreamFrom(s1, env, e, k + 1, payload)

RECURSIVE AnnounceFrom(_, _, _, _, _)
\* Narrator._announce_output_caps / MboxParser._set_src_caps: the loop from pad k on
AnnounceFrom(st, env, e, k, caps) ==
    IF st.err # NoError \/ k > Len(st.pads[e]) THEN st
    ELSE LET s1 == IF st.pads[e][k].direction = SRC
                   THEN SetCaps(st, env, <<e, k>>, caps, TRUE)
                   ELSE st
         IN  AnnounceFrom(s1, env, e, k + 1, caps)

(***************************************************************************)
(* Narrator (TextNarrator, MailboxNarrator)                                *)
(***************************************************************************)
RECURSIVE NarratorForwardFrom(_, _, _, _, _, _)
\* a slip in handle_event: the loop ends after the first linked peer
NarratorForwardsOnce(st, env, e, k, event, payload) ==
    IF st.err # NoError \/ k > Len(st.pads[e]) THEN st
    ELSE IF st.pads[e][k].direction = SRC /\ st.pads[e][k].peer # NoPeer
    THEN HandleEvent(StorePadCaps(st, st.pads[e][k].peer, payload), env,
                     st.pads[e][k].peer, event, payload)
    ELSE NarratorForwardFrom(st, env, e, k + 1, event, payload)

\* Narrator.handle_event: the forwarding loop from pad k on
NarratorForwardFrom(st, env, e, k, event, payload) ==
    IF st.err # NoError \/ k > Len(st.pads[e]) THEN st
    ELSE LET pad == st.pads[e][k]
             s1 == IF pad.direction = SRC /\ pad.peer # NoPeer
                   THEN HandleEvent(StorePadCaps(st, pad.peer, payload), env,
                                    pad.peer, event, payload)
                   ELSE st
         IN  NarratorForwardFrom(s1, env, e, k + 1, event, payload)

\* Narrator.handle_event
NarratorHandleEvent(st, env, p, event, payload) ==
    IF event = "caps"
    THEN IF ~IsCaps(payload) THEN Raise(st, ErrCapsType)
         ELSE LET s1 == StorePadCaps(st, p, payload)
                  s2 == [s1 EXCEPT !.ecaps[p[1]] = payload]
              IN  NarratorForwardFrom(s2, env, p[1], 1, event, payload)
    ELSE ElementHandleEvent(st, p, event, payload)

\* TextNarrator._can_process
TextCanProcess(env, caps, payload) ==
    IF IsCaps(caps) THEN caps.name \in {"plain-text", "document"}
    ELSE IF payload.tag = "dict" /\ "uri" \in payload.keys THEN env.textext
    ELSE FALSE

\* TextNarrator._narrate
TextNarrate(env, payload) ==
    IF payload.tag # "dict" THEN NoneV ELSE StrV("narration", 80)

\* MailboxNarrator._can_process
MailboxCanProcess(env, caps, payload) ==
    IF /\ IsCaps(caps)
       /\ caps.name \in {"application-mbox", "message-rfc822"}
       /\ \/ payload.tag = "none"
          \/ payload.tag = "bytes"
          \/ (payload.tag = "dict" /\ "uri" \in payload.keys)
    THEN TRUE
    ELSE IF ~(payload.tag = "dict" /\ "uri" \in payload.keys) THEN FALSE
    ELSE IF ~env.stripped THEN FALSE
    ELSE env.mailfile

\* MailboxNarrator._narrate
MailboxNarrate(env, payload) ==
    IF payload.tag = "bytes" THEN StrV("message", 80)
    ELSE IF payload.tag # "dict" THEN NoneV
    ELSE IF "uri" \notin payload.keys THEN NoneV
    ELSE StrV("mailbox", 80)

\* Narrator._can_process, as overridden by the subclass of element e
CanProcess(env, e, caps, payload) ==
    IF kind[e] = "text_narrator" THEN TextCanProcess(env, caps, payload)
    ELSE MailboxCanProcess(env, caps, payload)

\* Narrator._narrate, as overridden by the subclass of element e
Narrate(env, e, payload) ==
    IF kind[e] = "text_narrator" THEN TextNarrate(env, payload)
    ELSE MailboxNarrate(env, payload)

\* Narrator._announce_output_caps
AnnounceOutputCaps(st, env, e) ==
    AnnounceFrom([st EXCEPT !.ecaps[e] = NARRATION_CAPS], env, e, 1, NARRATION_CAPS)

\* Narrator._push_downstream
PushDownstream(st, env, e, payload) == PushDownstreamFrom(st, env, e, 1, payload)

\* self._push_downstream(payload) as the statement after a call that ended in st
ThenPushDownstream(st, env, e, payload) ==
    IF Failed(st) THEN st ELSE PushDownstreamFrom(st, env, e, 1, payload)

\* a slip in on_buffer: the description is pushed before the caps are announced
NarratorOnBufferPushesFirst(st, env, p, payload) ==
    LET e == p[1]
        caps == IF IsCaps(st.ecaps[e]) THEN st.ecaps[e] ELSE PadOf(st, p).caps
    IN  IF ~CanProcess(env, e, caps, payload) THEN PushDownstream(st, env, e, payload)
        ELSE LET description == Narrate(env, e, payload)
             IN  IF Truthy(description)
                 THEN AnnounceOutputCaps(PushDownstream(st, env, e, description), env, e)
                 ELSE st

\* a slip in on_buffer: the rejected payload is dropped instead of passed through
NarratorOnBufferDrops(st, env, p, payload) ==
    LET e == p[1]
        caps == IF IsCaps(st.ecaps[e]) THEN st.ecaps[e] ELSE PadOf(st, p).caps
    IN  IF ~CanProcess(env, e, caps, payload) THEN st
        ELSE LET description == Narrate(env, e, payload)
             IN  IF Truthy(description)
                 THEN ThenPushDownstream(AnnounceOutputCaps(st, env, e), env, e,
                                         description)
                 ELSE st

\* Narrator.on_buffer
NarratorOnBuffer(st, env, p, payload) ==
    LET e == p[1]
        caps == IF IsCaps(st.ecaps[e]) THEN st.ecaps[e] ELSE PadOf(st, p).caps
    IN  IF ~CanProcess(env, e, caps, payload) THEN PushDownstream(st, env, e, payload)
        ELSE LET description == Narrate(env, e, payload)
             IN  IF Truthy(description)
                 THEN ThenPushDownstream(AnnounceOutputCaps(st, env, e), env, e,
                                         description)
                 ELSE st

(***************************************************************************)
(* ImageNarrator (a subclass of Element, not of Narrator)                  *)
(***************************************************************************)
\* ImageNarrator.handle_event
ImageHandleEvent(st, env, p, event, payload) ==
    IF event = "caps"
    THEN IF ~IsCaps(payload) THEN Raise(st, ErrCapsType)
         ELSE LET s1 == StorePadCaps(st, p, payload)
                  s2 == [s1 EXCEPT !.ecaps[p[1]] = payload]
              IN  NarratorForwardFrom(s2, env, p[1], 1, event, payload)
    ELSE ElementHandleEvent(st, p, event, payload)

\* ImageNarrator._describe_image: always a string, also when the image
\* cannot be read or the model fails
DescribeImage(env) ==
    IF ~env.stripped THEN StrV("Image bytes unavailable", 53)
    ELSE StrV("description", 80)

\* ImageNarrator._announce_text_caps
AnnounceTextCaps(st, env, e) ==
    AnnounceFrom([st EXCEPT !.ecaps[e] = TEXT_CAPS], env, e, 1, TEXT_CAPS)

\* ImageNarrator.on_buffer
ImageOnBuffer(st, env, p, payload) ==
    LET e == p[1]
        caps == IF IsCaps(st.ecaps[e]) THEN st.ecaps[e] ELSE PadOf(st, p).caps
    IN  IF IsCaps(caps) /\ caps.name # "image-photo"
        THEN PushDownstream(st, env, e, payload)
        ELSE IF ~IsCaps(caps) /\ ~(payload.tag = "dict" /\ "uri" \in payload.keys)
        THEN Raise(st, ErrImageNoCaps)
        ELSE IF payload.tag # "dict" THEN PushDownstream(st, env, e, payload)
        ELSE ThenPushDownstream(AnnounceTextCaps(st, env, e), env, e, DescribeImage(env))

(***************************************************************************)
(* TripleExtractor                                                         *)
(***************************************************************************)
MinTextLength == 50

\* TripleExtractor._can_process
ExtractorCanProcess(caps, payload) ==
    IF IsCaps(caps) /\ caps.name = "plain-text" THEN TRUE
    ELSE IF /\ payload.tag # "none"
            /\ \/ payload.tag = "str"
               \/ (payload.tag = "dict" /\ "image_description" \in payload.keys)
    THEN TRUE
    ELSE IF payload.tag = "none" /\ caps.tag = "none" THEN TRUE
    ELSE IF /\ IsCaps(caps)
            /\ caps.name \in {"application-mbox", "message-rfc822", "mail"}
            /\ Truthy(payload)
            /\ payload.tag \in {"str", "dict"}
    THEN TRUE
    ELSE FALSE

\* TripleExtractor.handle_event
ExtractorHandleEvent(st, p, event, payload) ==
    IF event = "caps"
    THEN IF ~IsCaps(payload) THEN Raise(st, ErrCapsType)
         ELSE IF ~ExtractorCanProcess(payload, NoneV) THEN Raise(st, ErrNegotiation)
              ELSE StorePadCaps(st, p, payload)
    ELSE ElementHandleEvent(st, p, event, payload)

\* TripleExtractor._extract_text
ExtractText(payload) ==
    IF payload.tag = "str" THEN payload
    ELSE IF payload.tag = "dict" /\ "image_description" \in payload.keys
         THEN StrV("image_description", 80)
         ELSE NoneV

RECURSIVE PushTurtleFrom(_, _, _, _, _)
\* TripleExtractor._push_turtle: the loop from pad k on
PushTurtleFrom(st, env, e, k, content) ==
    IF st.err # NoError \/ k > Len(st.pads[e]) THEN st
    ELSE LET s1 == IF st.pads[e][k].direction = SRC
                   THEN ThenPush(SetCaps(st, env, <<e, k>>, TURTLE_CAPS, TRUE),
                                 env, <<e, k>>, content)
                   ELSE st
         IN  PushTurtleFrom(s1, env, e, k + 1, content)

\* TripleExtractor._extract_triples: the reply of the language model
ExtractTriples(st, env, p) ==
    LET s1 == Log(st, Call("llm", p, "", NoneV))
    IN  IF env.ttl \in OllamaErrors THEN Raise(s1, env.ttl) ELSE s1

\* TripleExtractor.on_buffer: `except OllamaError` around the extraction
ExceptOllamaError(st) == IF st.err \in OllamaErrors THEN [st EXCEPT !.err = NoError] ELSE st

\* TripleExtractor.on_buffer
ExtractorOnBuffer(st, env, p, payload) ==
    LET caps == PadOf(st, p).caps
        text == ExtractText(payload)
    IN  IF ~ExtractorCanProcess(caps, payload) THEN st
        ELSE IF ~Truthy(text) \/ text.len < MinTextLength THEN st
        ELSE LET s1 == ExtractTriples(st, env, p)
             IN  ExceptOllamaError(IF Failed(s1) THEN s1
                                   ELSE IF env.ttl = "empty" THEN s1
                                   ELSE PushTurtleFrom(s1, env, p[1], 1, StrV("turtle", 80)))

(***************************************************************************)
(* MboxParser                                                              *)
(***************************************************************************)
RECURSIVE MboxPushMessagesFrom(_, _, _, _)
\* MboxParser.on_buffer: the loop pushing message m and the following ones
MboxPushMessagesFrom(st, env, e, m) ==
    IF st.err # NoError \/ m > env.msgs THEN st
    ELSE MboxPushMessagesFrom(PushDownstreamFrom(st, env, e, 1, BytesV(m)), env, e, m + 1)

\* MboxParser.on_buffer, the body of its try block
MboxParse(st, env, p) ==
    LET in == PadOf(st, p).caps
        output_caps == Caps("application/mbox", "application-mbox", in.uri,
                            [in.params EXCEPT !.count = env.msgs])
        s1 == AnnounceFrom(st, env, p[1], 1, output_caps)
    IN  MboxPushMessagesFrom(s1, env, p[1], 1)

\* MboxParser.on_buffer: `except Exception` around the parsing
ExceptException(st) == IF Failed(st) THEN [st EXCEPT !.err = NoError] ELSE st

\* MboxParser.on_buffer
MboxOnBuffer(st, env, p, buffer) ==
    LET pad == PadOf(st, p)
    IN  IF pad.direction # SINK THEN st
        ELSE IF ~IsCaps(pad.caps) \/ pad.caps.name # "application-mbox" THEN st
        ELSE IF ~(buffer.tag = "dict" /\ "uri" \in buffer.keys) THEN st
        ELSE IF ~env.stripped THEN st
        ELSE ExceptException(MboxParse(st, env, p))

(***************************************************************************)
(* SilentSink                                                              *)
(***************************************************************************)
\* summarize_caps
SummarizeCaps(caps, type_source) ==
    [tag |-> "summary", caps |-> caps, source |-> type_source]

\* a slip in on_buffer: the new entry takes the place of the earlier ones
SinkOnBufferKeepsLast(st, p, payload) ==
    LET caps == PadOf(st, p).caps
        e == p[1]
    IN  IF ~IsCaps(caps) THEN Raise(st, ErrSinkNoCaps)
        ELSE IF payload.tag = "str" THEN [st EXCEPT !.outputs[e] = <<payload>>]
        ELSE IF payload.tag = "dict" /\ "image_description" \in payload.keys
             THEN [st EXCEPT !.outputs[e] = <<StrV("image_description", 80)>>]
        ELSE [st EXCEPT !.outputs[e] =
                 <<SummarizeCaps(caps, IF payload.tag = "dict"
                                       THEN payload.type_source ELSE "none")>>]

\* SilentSink.on_buffer
SinkOnBuffer(st, p, payload) ==
    LET caps == PadOf(st, p).caps
        e == p[1]
    IN  IF ~IsCaps(caps) THEN Raise(st, ErrSinkNoCaps)
        ELSE IF payload.tag = "str" THEN [st EXCEPT !.outputs[e] = Append(@, payload)]
        ELSE IF payload.tag = "dict" /\ "image_description" \in payload.keys
             THEN [st EXCEPT !.outputs[e] = Append(@, StrV("image_description", 80))]
        ELSE [st EXCEPT !.outputs[e] =
                 Append(@, SummarizeCaps(caps, IF payload.tag = "dict"
                                               THEN payload.type_source ELSE "none"))]

\* SilentSink.output
SinkOutput(outs) == IF outs = <<>> THEN NoneV ELSE [tag |-> "joined", lines |-> outs]

(***************************************************************************)
(* Dispatch of the two handlers on the class of the receiving element.     *)
(***************************************************************************)
HandleEvent(st, env, p, event, payload) ==
    LET s1 == Log(st, Call("handle_event", p, event, payload))
        k == kind[p[1]]
    IN  IF k \in NarratorKinds THEN NarratorHandleEvent(s1, env, p, event, payload)
        ELSE IF k = "image_narrator" THEN ImageHandleEvent(s1, env, p, event, payload)
        ELSE IF k = "extractor" THEN ExtractorHandleEvent(s1, p, event, payload)
        ELSE ElementHandleEvent(s1, p, event, payload)

OnBuffer(st, env, p, buffer) ==
    LET s1 == Log(st, Call("on_buffer", p, "", buffer))
        k == kind[p[1]]
    IN  IF k \in NarratorKinds THEN NarratorOnBuffer(s1, env, p, buffer)
        ELSE IF k = "image_narrator" THEN ImageOnBuffer(s1, env, p, buffer)
        ELSE IF k = "extractor" THEN ExtractorOnBuffer(s1, env, p, buffer)
        ELSE IF k = "mbox_parser" THEN MboxOnBuffer(s1, env, p, buffer)
        ELSE IF k = "sink" THEN SinkOnBuffer(s1, p, buffer)
        ELSE ElementOnBuffer(s1, p, buffer)

(***************************************************************************)
(* Element.send_event                                                      *)
(***************************************************************************)
RECURSIVE SendEventFrom(_, _, _, _, _, _)
\* a slip in send_event: the direction of the pad is not looked at
SendEventOnAllPads(st, env, e, k, event, payload) ==
    IF Failed(st) \/ k > Len(st.pads[e]) THEN st
    ELSE IF st.pads[e][k].peer # NoPeer
    THEN SendEventFrom(HandleEvent(st, env, st.pads[e][k].peer, event, payload),
                       env, e, k + 1, event, payload)
    ELSE SendEventFrom(st, env, e, k + 1, event, payload)

\* Element.send_event: the loop over the pads from pad k on
SendEventFrom(st, env, e, k, event, payload) ==
    IF Failed(st) \/ k > Len(st.pads[e]) THEN st
    ELSE IF st.pads[e][k].direction = SRC /\ st.pads[e][k].peer # NoPeer
    THEN SendEventFrom(HandleEvent(st, env, st.pads[e][k].peer, event, payload),
                       env, e, k + 1, event, payload)
    ELSE SendEventFrom(st, env, e, k + 1, event, payload)

\* Element.send_event
SendEvent(st, env, e, event, payload) == SendEventFrom(st, env, e, 1, event, payload)


(***************************************************************************)
(* HeaderAnalyzer.  A detector is modelled by its Caps and by what its     *)
(* predicate does on the sample at hand: "T" (true), "F" (false) or "X"    *)
(* (raises).                                                               *)
(***************************************************************************)
Outcomes == {"T", "F", "X"}

RECURSIVE DetectFrom(_, _)
\* a slip in detect: a raising predicate aborts the scan
DetectAbortsOnRaise(chain, k) ==
    IF k > Len(chain) THEN [caps |-> NoneV, evaluated |-> Len(chain)]
    ELSE IF chain[k].outcome = "T" THEN [caps |-> chain[k].caps, evaluated |-> k]
    ELSE IF chain[k].outcome = "X" THEN [caps |-> NoneV, evaluated |-> k]
    ELSE DetectFrom(chain, k + 1)

\* HeaderAnalyzer.detect: the loop from detector k on
DetectFrom(chain, k) ==
    IF k > Len(chain) THEN [caps |-> NoneV, evaluated |-> Len(chain)]
    ELSE IF chain[k].outcome = "T" THEN [caps |-> chain[k].caps, evaluated |-> k]
    ELSE DetectFrom(chain, k + 1)

\* HeaderAnalyzer.detect
Detect(chain) == DetectFrom(chain, 1)

(***************************************************************************)
(* DiscreteDataSource                                                      *)
(***************************************************************************)
CLASSIFIER_CAPS == Caps("application/octet-stream", "unknown", "urn:cognita:caps#unknown", NoParams)

\* a slip in _detect_caps: with no classifier configured a default is
\* returned instead of TypeFinderError
DetectCapsGuesses(st, env, e) ==
    LET caps == Detect(env.chain).caps
    IN  IF IsCaps(caps) THEN [st |-> st, caps |-> caps, type_source |-> "header"]
        ELSE IF env.clf = "unconfigured"
             THEN [st |-> st, caps |-> CLASSIFIER_CAPS, type_source |-> "ollama"]
        ELSE LET s1 == Log(st, Call("classify", <<e, 0>>, "", NoneV))
             IN  IF env.clf \in OllamaErrors
                 THEN [st |-> Raise(Raise(s1, env.clf), ErrTypeFinderOllama),
                       caps |-> NoneV, type_source |-> "header"]
                 ELSE [st |-> s1, caps |-> CLASSIFIER_CAPS, type_source |-> "ollama"]

\* a slip in _detect_caps: a failing classifier is asked a second time
DetectCapsRetries(st, env, e) ==
    LET caps == Detect(env.chain).caps
    IN  IF IsCaps(caps) THEN [st |-> st, caps |-> caps, type_source |-> "header"]
        ELSE IF env.clf = "unconfigured"
             THEN [st |-> Raise(st, ErrExhausted), caps |-> NoneV, type_source |-> "header"]
        ELSE LET s1 == Log(st, Call("classify", <<e, 0>>, "", NoneV))
             IN  IF env.clf \in OllamaErrors
                 THEN [st |-> Raise(Raise(Log(s1, Call("classify", <<e, 0>>, "", NoneV)),
                                          env.clf), ErrTypeFinderOllama),
                       caps |-> NoneV, type_source |-> "header"]
                 ELSE [st |-> s1, caps |-> CLASSIFIER_CAPS, type_source |-> "ollama"]

\* _detect_caps: the call state, the caps and the type_source it returns
DetectCaps(st, env, e) ==
    LET caps == Detect(env.chain).caps
    IN  IF IsCaps(caps) THEN [st |-> st, caps |-> caps, type_source |-> "header"]
        ELSE IF env.clf = "unconfigured"
             THEN [st |-> Raise(st, ErrExhausted), caps |-> NoneV, type_source |-> "header"]
        ELSE LET s1 == Log(st, Call("classify", <<e, 0>>, "", NoneV))
             IN  IF env.clf \in OllamaErrors
                 THEN [st |-> Raise(Raise(s1, env.clf), ErrTypeFinderOllama),
                       caps |-> NoneV, type_source |-> "header"]
                 ELSE [st |-> s1, caps |-> CLASSIFIER_CAPS, type_source |-> "ollama"]

\* compute_identity: the fingerprint it returns, "" when it returns none
ComputeIdentity(env, caps) ==
    IF ~env.stripped THEN ""
    ELSE IF caps.name = "message-rfc822" /\ env.msgid THEN "message-id" ELSE "sha256"

\* Caps.merge_params, for the fingerprint parameter
MergeFingerprint(caps, fingerprint) ==
    IF fingerprint = "" THEN caps ELSE [caps EXCEPT !.params.fingerprint = fingerprint]

RECURSIVE SourcePushFrom(_, _, _, _, _, _)
\* a slip in process: the buffer is pushed before the caps are set
SourcePushesFirst(st, env, e, k, caps, payload) ==
    IF st.err # NoError \/ k > Len(st.pads[e]) THEN st
    ELSE LET s1 == IF st.pads[e][k].direction = SRC
                   THEN LET s0 == Push(st, env, <<e, k>>, payload)
                        IN  IF Failed(s0) THEN s0 ELSE SetCaps(s0, env, <<e, k>>, caps, TRUE)
                   ELSE st
         IN  SourcePushFrom(s1, env, e, k + 1, caps, payload)

\* DiscreteDataSource.process: the loop over the pads from pad k on
SourcePushFrom(st, env, e, k, caps, payload) ==
    IF st.err # NoError \/ k > Len(st.pads[e]) THEN st
    ELSE LET s1 == IF st.pads[e][k].direction = SRC
                   THEN ThenPush(SetCaps(st, env, <<e, k>>, caps, TRUE),
                                 env, <<e, k>>, payload)
                   ELSE st
         IN  SourcePushFrom(s1, env, e, k + 1, caps, payload)

\* a slip in process: the type is detected before the file is looked for
SourceProcessDetectsFirst(st, env, e) ==
    LET d == DetectCaps(st, env, e)
    IN  IF d.st.err # NoError THEN d.st
        ELSE IF ~env.exists THEN Raise(d.st, ErrMissingResource)
        ELSE SourcePushFrom(d.st, env, e, 1,
                            MergeFingerprint(d.caps, ComputeIdentity(env, d.caps)),
                            DictV(d.type_source, {"type_source", "uri"}))

\* DiscreteDataSource.process
SourceProcess(st, env, e) ==
    IF ~env.exists THEN Raise(st, ErrMissingResource)
    ELSE LET d == DetectCaps(st, env, e)
         IN  IF d.st.err # NoError THEN d.st
             ELSE SourcePushFrom(d.st, env, e, 1,
                                 MergeFingerprint(d.caps, ComputeIdentity(env, d.caps)),
                                 DictV(d.type_source, {"type_source", "uri"}))

\* TimeSeriesDataSource.process
StreamProcess(st, env, e) ==
    IF ~env.exists THEN Raise(st, ErrMissingResource)
    ELSE LET d == DetectCaps(st, env, e)
         IN  IF d.st.err # NoError THEN d.st
             ELSE SourcePushFrom(d.st, env, e, 1, d.caps,
                                 DictV(d.type_source, {"type_source", "uri", "data"}))

\* process() of element e has returned, unless it raised
Returned(st, e) == IF Failed(st) THEN st ELSE Log(st, Call("return", <<e, 0>>, "", NoneV))

\* process() of element e, whatever its class
Process(st, env, e) ==
    LET s1 == Log(st, Call("process", <<e, 0>>, "", NoneV))
        s2 == IF kind[e] = "source" THEN SourceProcess(s1, env, e)
              ELSE IF kind[e] = "stream_source" THEN StreamProcess(s1, env, e)
              ELSE IF kind[e] = "element" THEN Raise(s1, ErrNotImplemented)
              ELSE s1
    IN  Returned(s2, e)

(***************************************************************************)
(* Element.request_pad, Pad.link, link_many                                *)
(***************************************************************************)
\* f"{direction.value}{len(self._pads)}"
AutoName(direction, n) == direction \o ToString(n)

\* a slip in request_pad: the overrides of SourceElement and SinkElement are
\* left out
RequestPadUnrestricted(st, e, direction, name) ==
    LET pad_name == IF name \notin {<<>>, <<"">>} THEN name[1]
                    ELSE AutoName(direction, Len(st.pads[e]))
    IN  [st EXCEPT !.pads[e] = Append(@, NewPad(pad_name, direction))]

\* a slip in request_pad: the derived name counts the new pad in
RequestPadCountsFromOne(st, e, direction, name) ==
    IF kind[e] \in SourceKinds /\ direction # SRC THEN Raise(st, ErrSourceOnly)
    ELSE IF kind[e] = "sink" /\ direction # SINK THEN Raise(st, ErrSinkOnly)
    ELSE LET pad_name == IF name \notin {<<>>, <<"">>} THEN name[1]
                         ELSE AutoName(direction, Len(st.pads[e]) + 1)
         IN  [st EXCEPT !.pads[e] = Append(@, NewPad(pad_name, direction))]

\* Element.request_pad and its overrides in SourceElement and SinkElement;
\* name is <<>> when no name is supplied and <<s>> when the string s is
\* ("name or ..." takes the derived name for the empty string too)
RequestPadOn(st, e, direction, name) ==
    IF kind[e] \in SourceKinds /\ direction # SRC THEN Raise(st, ErrSourceOnly)
    ELSE IF kind[e] = "sink" /\ direction # SINK THEN Raise(st, ErrSinkOnly)
    ELSE LET pad_name == IF name \notin {<<>>, <<"">>} THEN name[1]
                         ELSE AutoName(direction, Len(st.pads[e]))
         IN  [st EXCEPT !.pads[e] = Append(@, NewPad(pad_name, direction))]

\* a slip in link: a pad that has a peer is linked again
LinkPadsRelinks(st, a, b) ==
    IF PadOf(st, a).direction = PadOf(st, b).direction
    THEN Raise(st, ErrSameDirection)
    ELSE [st EXCEPT !.pads[a[1]][a[2]].peer = b, !.pads[b[1]][b[2]].peer = a]

\* a slip in link: only one side of the link is recorded
LinkPadsOneSided(st, a, b) ==
    IF PadOf(st, a).peer # NoPeer \/ PadOf(st, b).peer # NoPeer
    THEN Raise(st, ErrAlreadyLinked)
    ELSE IF PadOf(st, a).direction = PadOf(st, b).direction
    THEN Raise(st, ErrSameDirection)
    ELSE [st EXCEPT !.pads[a[1]][a[2]].peer = b]

\* Pad.link
LinkPads(st, a, b) ==
    IF PadOf(st, a).peer # NoPeer \/ PadOf(st, b).peer # NoPeer
    THEN Raise(st, ErrAlreadyLinked)
    ELSE IF PadOf(st, a).direction = PadOf(st, b).direction
    THEN Raise(st, ErrSameDirection)
    ELSE [st EXCEPT !.pads[a[1]][a[2]].peer = b, !.pads[b[1]][b[2]].peer = a]

RECURSIVE LinkManyFrom(_, _, _)
\* a slip in link_many: the pads are requested but never linked
LinkManyNoLink(st, es, k) ==
    IF st.err # NoError \/ k >= Len(es) THEN st
    ELSE LET s1 == RequestPadOn(st, es[k], SRC, <<>>)
             s2 == IF s1.err # NoError THEN s1
                   ELSE RequestPadOn(s1, es[k + 1], SINK, <<>>)
         IN  LinkManyFrom(s2, es, k + 1)

\* link_many: the loop over the pairs from pair (es[k], es[k+1]) on
LinkManyFrom(st, es, k) ==
    IF st.err # NoError \/ k >= Len(es) THEN st
    ELSE LET s1 == RequestPadOn(st, es[k], SRC, <<>>)
             s2 == IF s1.err # NoError THEN s1
                   ELSE RequestPadOn(s1, es[k + 1], SINK, <<>>)
             s3 == IF s2.err # NoError THEN s2
                   ELSE LinkPads(s2, <<es[k], Len(s2.pads[es[k]])>>,
                                 <<es[k + 1], Len(s2.pads[es[k + 1]])>>)
         IN  LinkManyFrom(s3, es, k + 1)

\* link_many
LinkMany(st, es) == IF Len(es) < 2 THEN st ELSE LinkManyFrom(st, es, 1)


(***************************************************************************)
(* The environment of a call: the file behind the source's URI, what the   *)
(* detectors make of its first bytes, and the replies of the language      *)
(* model.                                                                  *)
(***************************************************************************)
Files == {"missing", "mailbox", "message", "text", "other"}

\* the caps the detectors of a chain may carry
DetectorCaps == {DOCUMENT_CAPS, IMAGE_CAPS, MBOX_CAPS, EML_CAPS, TEXT_CAPS}

Detector(caps, outcome) == [caps |-> caps, outcome |-> outcome]

\* what a detector chain does on a sample: nothing matches, a predicate
\* raises and nothing matches, or a detector of the given caps matches
\* (after one that does not and one that raises)
Chains ==
    {<<>>, <<Detector(DOCUMENT_CAPS, "X"), Detector(IMAGE_CAPS, "F")>>}
    \cup {<<Detector(EML_CAPS, "F"), Detector(IMAGE_CAPS, "X"), Detector(c, "T")>> :
            c \in DetectorCaps}

ClassifierReplies == {"unconfigured", "caps", ErrOllamaUnavailable, ErrOllamaMalformed}

ModelReplies == {"text", "empty", ErrOllamaUnavailable}

\* A location is what follows "file://" when the prefix is there, and the
\* whole string when it is not, as a sequence of tokens: "localhost", "/",
\* a name, a space, and the escape "%20" of a space.  A path on disk is a
\* sequence of the same tokens.
Uri(prefixed, rest) == [prefixed |-> prefixed, rest |-> rest]

\* urllib.parse.unquote
Unquote(tokens) == [i \in 1..Len(tokens) |-> IF tokens[i] = "%20" THEN " " ELSE tokens[i]]

RECURSIVE FromSlash(_)
\* urllib.parse.urlparse(uri).path: what follows the host
FromSlash(tokens) ==
    IF tokens = <<>> \/ tokens[1] = "/" THEN tokens ELSE FromSlash(Tail(tokens))

\* the path _read_prebuffer and _read_detection_sample open
SourcePath(uri) ==
    IF uri.prefixed THEN Unquote(FromSlash(uri.rest)) ELSE uri.rest

\* the path compute_identity, MboxParser and the narrators open:
\* uri[len("file://"):] if uri.startswith("file://") else uri
StripPrefix(uri) == uri.rest

PlainUri == Uri(TRUE, <<"/", "a">>)

\* the file is of one kind and is found at the given paths; "missing" is
\* the kind of no file at all
EnvAt(uri, files, file, msgs, chain, clf, ttl) ==
    [uri |-> uri,
     files |-> files,
     exists |-> file # "missing" /\ SourcePath(uri) \in files,
     stripped |-> file # "missing" /\ StripPrefix(uri) \in files,
     mailfile |-> file \in {"mailbox", "message"},
     msgid |-> file = "message",
     textext |-> file = "text",
     msgs |-> IF file = "mailbox" THEN msgs ELSE 0,
     chain |-> chain, clf |-> clf, ttl |-> ttl]

\* a file, or none, behind a location that needs no decoding
Env(file, msgs, chain, clf, ttl) ==
    EnvAt(PlainUri, {SourcePath(PlainUri)}, file, msgs, chain, clf, ttl)

\* the environments of a call that starts at a source
SourceEnvs ==
    {Env(f, m, c, k, t) : f \in Files, m \in {MaxMsgs}, c \in Chains,
                          k \in ClassifierReplies, t \in ModelReplies}

\* the environments of a call that starts downstream of the source
FlowEnvs ==
    {Env("missing", 0, <<>>, "unconfigured", "empty")}
    \cup {Env("mailbox", m, <<>>, "unconfigured", t) : m \in 0..MaxMsgs, t \in ModelReplies}

QuietEnv == Env("missing", 0, <<>>, "unconfigured", "empty")

(***************************************************************************)
(* Initial state: the elements are constructed, no pad exists.             *)
(***************************************************************************)
\* the elements of a pipeline with data flowing through it
Configs ==
    { <<"source", "text_narrator", "extractor">>,
      <<"source", "mbox_parser", "extractor">>,
      <<"source", "mailbox_narrator", "sink">>,
      <<"element", "sink", "text_narrator">> }

\* the elements whose pads are requested, linked and used one by one
PadConfigs == { <<"element", "text_narrator">>, <<"mailbox_narrator", "sink">> }

\* the elements of the construction calls
BuildConfigs == { <<"element", "element">>, <<"source", "element", "sink">> }

NoCall == [op |-> "none", err |-> NoError]

InitWith(configs) ==
    /\ kind \in configs
    /\ pads = [e \in DOMAIN kind |-> <<>>]
    /\ ecaps = [e \in DOMAIN kind |-> NoneV]
    /\ outputs = [e \in DOMAIN kind |-> <<>>]
    /\ pipe = [built |-> FALSE, elements |-> <<>>]
    /\ pc = "idle"
    /\ runIdx = 0
    /\ last = NoCall
    /\ trace = <<>>
    /\ raised = <<>>
    /\ nops = 0
    /\ sample = <<>>
    /\ detres = [caps |-> NoneV, evaluated |-> 0]

Init == InitWith(Configs)

\* the fields a call leaves behind
Commit(st) ==
    /\ pads' = st.pads
    /\ ecaps' = st.ecaps
    /\ outputs' = st.outputs
    /\ trace' = st.trace
    /\ raised' = st.raised

Building == nops = 0 /\ pc = "idle"

Flowing == nops < MaxOps /\ pc = "idle"

\* the strictly increasing sequences of elements
RECURSIVE SeqsOver(_, _)
SeqsOver(S, n) ==
    IF n = 0 THEN {<<>>}
    ELSE LET shorter == SeqsOver(S, n - 1)
         IN  shorter \cup {Append(q, e) : q \in {r \in shorter : Len(r) = n - 1}, e \in S}

Increasing(q) == \A i \in 1..(Len(q) - 1) : q[i] < q[i + 1]

Distinct(q) == \A i, j \in 1..Len(q) : i # j => q[i] # q[j]

\* the lists of distinct elements
AnyLists == {q \in SeqsOver(Elems, Cardinality(Elems)) : Distinct(q)}

\* the lists that lead from earlier elements to later ones
ElementLists == {q \in AnyLists : Increasing(q)}

WithinPadBound(st) == \A e \in Elems : Len(st.pads[e]) <= MaxPads

(***************************************************************************)
(* Construction calls                                                      *)
(***************************************************************************)
\* element.request_pad(direction)
RequestPad(e, direction) ==
    /\ Building
    /\ Len(pads[e]) < MaxPads
    /\ LET st == RequestPadOn(CallState, e, direction, <<>>)
       IN  /\ Commit(st)
           /\ last' = [op |-> "request_pad", elem |-> e, direction |-> direction,
                       err |-> st.err]
    /\ UNCHANGED <<kind, pipe, pc, runIdx, nops, sample, detres>>

\* a.link(b)
Link(a, b) ==
    /\ Building
    /\ IsPad(a) /\ IsPad(b)
    /\ LET st == LinkPads(CallState, a, b)
       IN  /\ Commit(st)
           /\ last' = [op |-> "link", a |-> a, b |-> b, err |-> st.err]
    /\ UNCHANGED <<kind, pipe, pc, runIdx, nops, sample, detres>>

\* a.link(b) where data is to flow afterwards: the source pad belongs to an
\* earlier element than the sink pad, so that the elements form no cycle
\* (a buffer pushed around a cycle of elements never comes to rest)
LinkForward(a, b) ==
    /\ IsPad(a) /\ IsPad(b)
    /\ \/ (pads[a[1]][a[2]].direction = SRC /\ a[1] < b[1])
       \/ (pads[a[1]][a[2]].direction = SINK /\ b[1] < a[1])
       \/ LinkPads(CallState, a, b).err # NoError
    /\ Link(a, b)

\* link_many(*es)
CallLinkMany(es) ==
    /\ Building
    /\ LET st == LinkMany(CallState, es)
       IN  /\ WithinPadBound(st)
           /\ Commit(st)
           /\ last' = [op |-> "link_many", elements |-> es, err |-> st.err]
    /\ UNCHANGED <<kind, pipe, pc, runIdx, nops, sample, detres>>

\* Pipeline(es)
NewPipeline(es) ==
    /\ Building
    /\ ~pipe.built
    /\ LET st == LinkMany(CallState, es)
       IN  /\ WithinPadBound(st)
           /\ Commit(st)
           /\ pipe' = IF st.err = NoError THEN [built |-> TRUE, elements |-> es] ELSE pipe
           /\ last' = [op |-> "Pipeline", elements |-> es, err |-> st.err]
    /\ UNCHANGED <<kind, pc, runIdx, nops, sample, detres>>


(***************************************************************************)
(* Dataflow calls                                                          *)
(***************************************************************************)
\* the caps a caller hands to set_caps or to a caps event
CapsValues == {DOCUMENT_CAPS, MBOX_CAPS, TEXT_CAPS}

\* the buffers a caller pushes
Buffers == {StrV("hello", 80), DictV("header", {"type_source", "uri"})}

Events == {"caps", "eos"}

EventPayloads == CapsValues \cup {NoneV}

\* pad.set_caps(caps, propagate)
CallSetCaps(p, caps, propagate) ==
    /\ Flowing
    /\ IsPad(p)
    /\ \E env \in FlowEnvs :
         LET st == SetCaps(CallState, env, p, caps, propagate)
         IN  /\ Commit(st)
             /\ last' = [op |-> "set_caps", pad |-> p, caps |-> caps,
                         propagate |-> propagate, err |-> st.err]
    /\ nops' = nops + 1
    /\ UNCHANGED <<kind, pipe, pc, runIdx, sample, detres>>

\* pad.push(buffer)
CallPush(p, buffer) ==
    /\ Flowing
    /\ IsPad(p)
    /\ \E env \in FlowEnvs :
         LET st == Push(CallState, env, p, buffer)
         IN  /\ Commit(st)
             /\ last' = [op |-> "push", pad |-> p, buffer |-> buffer, err |-> st.err]
    /\ nops' = nops + 1
    /\ UNCHANGED <<kind, pipe, pc, runIdx, sample, detres>>

\* element.handle_event(pad, event, payload), for a pad of the element
CallHandleEvent(p, event, payload) ==
    /\ Flowing
    /\ IsPad(p)
    /\ \E env \in FlowEnvs :
         LET st == HandleEvent(CallState, env, p, event, payload)
         IN  /\ Commit(st)
             /\ last' = [op |-> "handle_event", pad |-> p, event |-> event,
                         payload |-> payload, err |-> st.err]
    /\ nops' = nops + 1
    /\ UNCHANGED <<kind, pipe, pc, runIdx, sample, detres>>

\* element.on_buffer(pad, buffer), called directly for a pad of the element
CallOnBuffer(p, buffer) ==
    /\ Flowing
    /\ IsPad(p)
    /\ \E env \in FlowEnvs :
         LET st == OnBuffer(CallState, env, p, buffer)
         IN  /\ Commit(st)
             /\ last' = [op |-> "on_buffer", pad |-> p, buffer |-> buffer, err |-> st.err]
    /\ nops' = nops + 1
    /\ UNCHANGED <<kind, pipe, pc, runIdx, sample, detres>>

(***************************************************************************)
(* Pipeline.run                                                            *)
(***************************************************************************)
\* run() is entered
RunStart ==
    /\ Flowing
    /\ pipe.built
    /\ pc' = "running"
    /\ runIdx' = 1
    /\ trace' = <<>>
    /\ raised' = <<>>
    /\ last' = [op |-> "run_start", err |-> NoError]
    /\ nops' = nops + 1
    /\ UNCHANGED <<kind, pads, ecaps, outputs, pipe, sample, detres>>

\* a slip in run: the loop starts at the far end
ElementAtReversed(i) == pipe.elements[Len(pipe.elements) + 1 - i]

\* the element the loop of run() picks at position i
ElementAt(i) == pipe.elements[i]

\* one iteration of the loop of run(): element.process(), with all it calls
RunStep ==
    /\ pc = "running"
    /\ runIdx <= Len(pipe.elements)
    /\ \E env \in (IF kind[ElementAt(runIdx)] \in SourceKinds THEN SourceEnvs
                   ELSE {QuietEnv}) :
         LET st == Process([CallState EXCEPT !.trace = trace, !.raised = raised],
                           env, ElementAt(runIdx))
         IN  /\ Commit(st)
             /\ IF st.err # NoError
                THEN /\ pc' = "idle"
                     /\ runIdx' = 0
                     /\ last' = [op |-> "run", err |-> st.err, ret |-> NoneV]
                ELSE /\ pc' = pc
                     /\ runIdx' = runIdx + 1
                     /\ last' = [op |-> "process", err |-> NoError]
    /\ UNCHANGED <<kind, pipe, nops, sample, detres>>

\* the value run() returns: getattr(self.elements[-1], "output", None)
RunResult ==
    IF pipe.elements = <<>> THEN NoneV
    ELSE LET e == pipe.elements[Len(pipe.elements)]
         IN  IF kind[e] = "sink" THEN SinkOutput(outputs[e]) ELSE NoneV

\* run() returns
RunReturn ==
    /\ pc = "running"
    /\ runIdx > Len(pipe.elements)
    /\ pc' = "idle"
    /\ runIdx' = 0
    /\ last' = [op |-> "run", err |-> NoError, ret |-> RunResult]
    /\ UNCHANGED <<kind, pads, ecaps, outputs, pipe, trace, raised, nops, sample, detres>>

Next ==
    \/ \E es \in ElementLists : NewPipeline(es)
    \/ \E p \in PadRefs, c \in CapsValues, g \in BOOLEAN : CallSetCaps(p, c, g)
    \/ \E p \in PadRefs, b \in Buffers : CallPush(p, b)
    \/ \E p \in PadRefs, ev \in Events, v \in EventPayloads : CallHandleEvent(p, ev, v)
    \/ RunStart
    \/ RunStep
    \/ RunReturn

Spec == Init /\ [][Next]_vars

\* pads requested, linked and used one by one, on two elements
NextPad ==
    \/ \E e \in Elems, d \in Directions : RequestPad(e, d)
    \/ \E a \in PadRefs, b \in PadRefs : LinkForward(a, b)
    \/ \E p \in PadRefs, c \in CapsValues, g \in BOOLEAN : CallSetCaps(p, c, g)
    \/ \E p \in PadRefs, b \in Buffers : CallPush(p, b)
    \/ \E p \in PadRefs, ev \in Events, v \in EventPayloads : CallHandleEvent(p, ev, v)
    \/ \E p \in PadRefs, b \in Buffers : CallOnBuffer(p, b)

SpecPad == InitWith(PadConfigs) /\ [][NextPad]_vars

\* construction alone, in any order
NextBuild ==
    \/ \E e \in Elems, d \in Directions : RequestPad(e, d)
    \/ \E a \in PadRefs, b \in PadRefs : Link(a, b)
    \/ \E es \in AnyLists : CallLinkMany(es)
    \/ \E es \in AnyLists : NewPipeline(es)

SpecBuild == InitWith(BuildConfigs) /\ [][NextBuild]_vars


(***************************************************************************)
(* HeaderAnalyzer.detect on its own: a chain of detectors and a sample,    *)
(* given by what each predicate does on it.                                *)
(***************************************************************************)
SampleCaps == {DOCUMENT_CAPS, IMAGE_CAPS}

SampleDetectors == {Detector(c, o) : c \in SampleCaps, o \in Outcomes}

InitDetect ==
    /\ kind = <<>>
    /\ pads = <<>>
    /\ ecaps = <<>>
    /\ outputs = <<>>
    /\ pipe = [built |-> FALSE, elements |-> <<>>]
    /\ pc = "idle"
    /\ runIdx = 0
    /\ last = NoCall
    /\ trace = <<>>
    /\ raised = <<>>
    /\ nops = 0
    /\ sample \in SeqsOver(SampleDetectors, MaxDetectors) \ {<<>>}
    /\ detres = [caps |-> NoneV, evaluated |-> 0]

\* analyzer.detect(sample)
CallDetect ==
    /\ last.op # "detect"
    /\ detres' = Detect(sample)
    /\ last' = [op |-> "detect", err |-> NoError]
    /\ UNCHANGED <<kind, pads, ecaps, outputs, pipe, pc, runIdx, trace, raised, nops, sample>>

SpecDetect == InitDetect /\ [][CallDetect]_vars

(***************************************************************************)
(* The default detectors on a byte sample.  A sample is a sequence of      *)
(* byte strings taken from the table Bytes; for each string the table      *)
(* gives its length, the number of its bytes that _is_text_document        *)
(* counts as printable, whether it is valid UTF-8, the markers it holds    *)
(* (lower-cased), and where its first "\n" is: "none", "first" (it starts  *)
(* with "\n"), "cr" (it starts with "\r\n") or "later".                    *)
(***************************************************************************)
MaxTokens == 3      \* byte strings in a sample

TextWindow == 2048  \* bytes that _decode_lower and _is_text_document look at
BoxOffset == 4      \* offset of "ftyp" in an ISO-BMFF file
MinBoxLength == 12
DensityPercent == 85

VIDEO_CAPS == Caps("video", "video", "urn:cognita:caps:video", NoParams)
CALENDAR_CAPS == Caps("calendar", "calendar", "urn:cognita:caps:calendar", NoParams)
BINARY_CAPS == Caps("binary", "binary-file", "urn:cognita:caps:binary", NoParams)

B(len, printable, utf8, has, nl) ==
    [len |-> len, printable |-> printable, utf8 |-> utf8, has |-> has, nl |-> nl]

Bytes ==
    "pdf" :> B(5, 5, TRUE, {}, "none")           \* %PDF-
    @@ "png" :> B(8, 6, FALSE, {}, "later")      \* \x89PNG\r\n\x1a\n
    @@ "jpeg" :> B(3, 0, FALSE, {}, "none")      \* \xff\xd8\xff
    @@ "gif87a" :> B(6, 6, TRUE, {}, "none")     \* GIF87a
    @@ "gif89a" :> B(6, 6, TRUE, {}, "none")     \* GIF89a
    @@ "pk" :> B(4, 2, TRUE, {}, "none")         \* PK\x03\x04
    @@ "elf" :> B(4, 3, TRUE, {}, "none")        \* \x7fELF
    @@ "size" :> B(4, 0, TRUE, {}, "none")       \* \x00\x00\x00\x18
    @@ "e0" :> B(1, 0, FALSE, {}, "none")        \* \xe0
    @@ "ftyp" :> B(8, 8, TRUE, {"ftyp"}, "none") \* ftypmp42
    @@ "separator" :> B(32, 32, TRUE, {}, "none")   \* From bob Fri Jul 8 12:00:00 2011
    @@ "from" :> B(9, 9, TRUE, {}, "none")          \* From here
    @@ "lf" :> B(1, 1, TRUE, {}, "first")           \* \n
    @@ "crlf" :> B(2, 2, TRUE, {}, "cr")            \* \r\n
    @@ "subject" :> B(12, 12, TRUE, {"subject:"}, "later")  \* Subject: Hi\n
    @@ "headers" :> B(22, 22, TRUE, {"subject:", "from:"}, "later") \* Subject: Hi\nFrom: a@b\n
    @@ "begin" :> B(16, 16, TRUE, {"begin:vcalendar"}, "later")     \* BEGIN:VCALENDAR\n
    @@ "vcalendar" :> B(30, 30, TRUE, {"begin:vcalendar", "end:vcalendar"}, "later")
                                                    \* BEGIN:VCALENDAR\nEND:VCALENDAR\n
    @@ "end" :> B(14, 14, TRUE, {"end:vcalendar"}, "later")         \* END:VCALENDAR\n
    @@ "content_types" :> B(19, 19, TRUE, {"[Content_Types].xml"}, "none")
    @@ "word" :> B(5, 5, TRUE, {"word/"}, "none")   \* word/
    @@ "ppt" :> B(4, 4, TRUE, {"ppt/"}, "none")     \* ppt/
    @@ "xl" :> B(3, 3, TRUE, {"xl/"}, "none")       \* xl/
    @@ "noise" :> B(16, 0, FALSE, {}, "none")       \* sixteen bytes \x80
    @@ "text" :> B(11, 11, TRUE, {}, "none")        \* hello world
    @@ "fill" :> B(2048, 2048, TRUE, {}, "none")    \* "A" * 2048

Strings == DOMAIN Bytes

Samples == SeqsOver(Strings, MaxTokens)

RECURSIVE Offset(_, _)
\* the number of bytes before the k-th string of the sample
Offset(data, k) == IF k <= 1 THEN 0 ELSE Offset(data, k - 1) + Bytes[data[k - 1]].len

\* len(data)
Size(data) == Offset(data, Len(data) + 1)

\* data.startswith(s)
StartsWith(data, s) == Len(data) > 0 /\ data[1] = s

\* marker in data
Contains(data, marker) == \E k \in DOMAIN data : marker \in Bytes[data[k]].has

\* marker in _decode_lower(data): the marker lies in the first 2048 bytes
\* (UTF-8 and latin-1 decode the markers alike)
InDecodeLower(data, marker) ==
    \E k \in DOMAIN data :
        /\ marker \in Bytes[data[k]].has
        /\ Offset(data, k + 1) <= TextWindow

\* data[4:8] == b"ftyp"
FtypBox(data) ==
    \E k \in DOMAIN data : "ftyp" \in Bytes[data[k]].has /\ Offset(data, k) = BoxOffset

\* the index of the string that holds the first "\n", or 0
FirstNewline(data) ==
    IF \A k \in DOMAIN data : Bytes[data[k]].nl = "none" THEN 0
    ELSE CHOOSE k \in DOMAIN data :
            /\ Bytes[data[k]].nl # "none"
            /\ \A j \in 1..(k - 1) : Bytes[data[j]].nl = "none"

\* the strings that lie wholly in data.split(b"\n", 1)[0]
LineStrings(data) ==
    IF FirstNewline(data) = 0 THEN data ELSE SubSeq(data, 1, FirstNewline(data) - 1)

\* the first line ends where its last whole string ends
LineEndsClean(data) ==
    FirstNewline(data) = 0 \/ Bytes[data[FirstNewline(data)]].nl = "first"

_is_calendar(data) ==
    InDecodeLower(data, "begin:vcalendar") /\ InDecodeLower(data, "end:vcalendar")

\* the first line is decoded and matched against ^From \S+ .+\d{4}$: it
\* starts with "From " and a word, and its last four characters are
\* digits, which of the strings only the separator line ends with
_is_mbox(data) ==
    /\ StartsWith(data, "separator") \/ StartsWith(data, "from")
    /\ \A k \in DOMAIN LineStrings(data) : Bytes[data[k]].utf8
    /\ LineEndsClean(data)
    /\ LineStrings(data)[Len(LineStrings(data))] = "separator"

_is_eml(data) == InDecodeLower(data, "subject:") /\ InDecodeLower(data, "from:")

_is_pdf(data) == StartsWith(data, "pdf")

_is_png(data) == StartsWith(data, "png")

_is_jpeg(data) == StartsWith(data, "jpeg")

_is_gif(data) == StartsWith(data, "gif87a") \/ StartsWith(data, "gif89a")

_is_mp4(data) == Size(data) >= MinBoxLength /\ FtypBox(data)

OfficeMarkers == {"[Content_Types].xml", "word/", "ppt/", "xl/"}

_is_zip(data) == StartsWith(data, "pk")

_is_ooxml_zip(data) == _is_zip(data) /\ \E marker \in OfficeMarkers : Contains(data, marker)

_is_elf(data) == StartsWith(data, "elf")

RECURSIVE PrintableFrom(_, _)
\* the printable bytes among the first 2048, from the k-th string on (a
\* string cut by the window is "fill", whose bytes are all alike)
PrintableFrom(data, k) ==
    IF k > Len(data) \/ Offset(data, k) >= TextWindow THEN 0
    ELSE IF Offset(data, k + 1) <= TextWindow
         THEN Bytes[data[k]].printable + PrintableFrom(data, k + 1)
    ELSE IF Bytes[data[k]].printable = Bytes[data[k]].len
         THEN TextWindow - Offset(data, k)
    ELSE 0

\* len(data[:2048])
WindowSize(data) == IF Size(data) < TextWindow THEN Size(data) ELSE TextWindow

_is_text_document(data) ==
    /\ Size(data) > 0
    /\ PrintableFrom(data, 1) * 100 >= DensityPercent * WindowSize(data)
    /\ ~InDecodeLower(data, "begin:vcalendar")

\* DEFAULT_DETECTORS on a sample: each detector with what its predicate
\* returns (none of the predicates lets an exception out)
DEFAULT_DETECTORS(data) ==
    LET D(caps, match) == Detector(caps, IF match THEN "T" ELSE "F")
    IN  << D(CALENDAR_CAPS, _is_calendar(data)),
           D(MBOX_CAPS, _is_mbox(data)),
           D(EML_CAPS, _is_eml(data)),
           D(DOCUMENT_CAPS, _is_pdf(data)),
           D(DOCUMENT_CAPS, _is_ooxml_zip(data)),
           D(VIDEO_CAPS, _is_mp4(data)),
           D(IMAGE_CAPS, _is_png(data)),
           D(IMAGE_CAPS, _is_jpeg(data)),
           D(IMAGE_CAPS, _is_gif(data)),
           D(BINARY_CAPS, _is_zip(data)),
           D(BINARY_CAPS, _is_elf(data)),
           D(DOCUMENT_CAPS, _is_text_document(data)) >>

InitSniff ==
    /\ kind = <<>>
    /\ pads = <<>>
    /\ ecaps = <<>>
    /\ outputs = <<>>
    /\ pipe = [built |-> FALSE, elements |-> <<>>]
    /\ pc = "idle"
    /\ runIdx = 0
    /\ last = NoCall
    /\ trace = <<>>
    /\ raised = <<>>
    /\ nops = 0
    /\ sample \in Samples
    /\ detres = [caps |-> NoneV, evaluated |-> 0]

\* HeaderAnalyzer().detect(sample)
CallDetectDefault ==
    /\ last.op # "detect"
    /\ detres' = Detect(DEFAULT_DETECTORS(sample))
    /\ last' = [op |-> "detect", err |-> NoError]
    /\ UNCHANGED <<kind, pads, ecaps, outputs, pipe, pc, runIdx, trace, raised, nops, sample>>

SpecSniff == InitSniff /\ [][CallDetectDefault]_vars


(***************************************************************************)
(* The pipelines of the tools text2spo, image2spo and mbox2spo, and the    *)
(* mailbox chain ending in the sink; run() is called on them as a whole.   *)
(***************************************************************************)
ChainConfigs ==
    { <<"source", "text_narrator", "extractor", "sink">>,
      <<"source", "image_narrator", "extractor", "sink">>,
      <<"source", "mbox_parser", "mailbox_narrator", "extractor", "sink">>,
      <<"source", "mbox_parser", "mailbox_narrator", "sink">> }

\* what the detector chain makes of the file: the caps of the detector that
\* matches, or no match
ChainDetections ==
    {<<>>} \cup {<<Detector(c, "T")>> : c \in {DOCUMENT_CAPS, IMAGE_CAPS, MBOX_CAPS}}

\* the environments of a run of a tool
ChainEnvs ==
    {Env(f, MaxMsgs, c, k, t) : f \in {"missing", "mailbox"}, c \in ChainDetections,
                                k \in {"unconfigured", "caps"}, t \in ModelReplies}

\* the lists of elements a tool hands to Pipeline(): all of them, or all
\* but one
AllElements == [i \in 1..Cardinality(Elems) |-> i]

Without(q, k) == [i \in 1..(Len(q) - 1) |-> IF i < k THEN q[i] ELSE q[i + 1]]

ChainLists == {AllElements} \cup {Without(AllElements, k) : k \in Elems}

RECURSIVE RunFrom(_, _, _)
\* Pipeline.run: the loop from position i on
RunFrom(st, env, i) ==
    IF st.err # NoError \/ i > Len(pipe.elements) THEN st
    ELSE RunFrom(Process(st, env, ElementAt(i)), env, i + 1)

\* the value run() returns after a call that ended in st
RunOutput(st) ==
    IF pipe.elements = <<>> THEN NoneV
    ELSE LET e == pipe.elements[Len(pipe.elements)]
         IN  IF kind[e] = "sink" THEN SinkOutput(st.outputs[e]) ELSE NoneV

\* pipeline.run(), from the call to its return or to the error it raises
CallRun(env) ==
    /\ Flowing
    /\ pipe.built
    /\ LET st == RunFrom(CallState, env, 1)
       IN  /\ Commit(st)
           /\ last' = [op |-> "run", err |-> st.err, env |-> env,
                       ret |-> IF st.err = NoError THEN RunOutput(st) ELSE NoneV]
    /\ nops' = nops + 1
    /\ UNCHANGED <<kind, pipe, pc, runIdx, sample, detres>>

NextChain ==
    \/ \E es \in ChainLists : NewPipeline(es)
    \/ \E env \in ChainEnvs : CallRun(env)

SpecChain == InitWith(ChainConfigs) /\ [][NextChain]_vars

(***************************************************************************)
(* A source on its own: its source pads are requested and linked to the    *)
(* elements after it, then process() is called on it.                      *)
(***************************************************************************)
SourceConfigs == { <<"source", "sink", "sink">>, <<"stream_source", "sink", "element">> }

\* what the detector chain makes of the bytes read
ProcessDetections ==
    { <<>>,
      <<Detector(DOCUMENT_CAPS, "X"), Detector(IMAGE_CAPS, "F")>>,
      <<Detector(IMAGE_CAPS, "F"), Detector(DOCUMENT_CAPS, "T")>>,
      <<Detector(EML_CAPS, "T")>> }

\* the environments of a call of process()
ProcessEnvs ==
    {Env(f, 0, c, k, "empty") : f \in {"missing", "message", "other"},
                                c \in ProcessDetections, k \in ClassifierReplies}

\* source.process(), called directly
CallProcess(e, env) ==
    /\ Flowing
    /\ kind[e] \in SourceKinds
    /\ LET st == Process(CallState, env, e)
       IN  /\ Commit(st)
           /\ last' = [op |-> "process", elem |-> e, env |-> env, err |-> st.err]
    /\ nops' = nops + 1
    /\ UNCHANGED <<kind, pipe, pc, runIdx, sample, detres>>

NextSource ==
    \/ \E e \in Elems : kind[e] \in SourceKinds /\ RequestPad(e, SRC)
    \/ \E es \in ElementLists : Len(es) = 2 /\ CallLinkMany(es)
    \/ \E e \in Elems, env \in ProcessEnvs : CallProcess(e, env)

SpecSource == InitWith(SourceConfigs) /\ [][NextSource]_vars

(***************************************************************************)
(* request_pad with and without a name, on elements of the three classes   *)
(* of element.py.                                                          *)
(***************************************************************************)
MaxNamedPads == 3   \* pads an element may own when names are supplied

NamedConfigs == { <<"element", "source">>, <<"element", "sink">> }

\* the name arguments: none, or a string
PadNames == {<<>>, <<"">>, <<"in">>, <<"sink1">>}

\* element.request_pad(direction, name)
CallRequestPad(e, direction, name) ==
    /\ Building
    /\ Len(pads[e]) < MaxNamedPads
    /\ LET st == RequestPadOn(CallState, e, direction, name)
       IN  /\ Commit(st)
           /\ last' = [op |-> "request_pad", elem |-> e, direction |-> direction,
                       name |-> name, err |-> st.err]
    /\ UNCHANGED <<kind, pipe, pc, runIdx, nops, sample, detres>>

NextNamed == \E e \in Elems, d \in Directions, name \in PadNames : CallRequestPad(e, d, name)

SpecNamed == InitWith(NamedConfigs) /\ [][NextNamed]_vars

(***************************************************************************)
(* send_event on an element whose pads have been requested and linked one  *)
(* by one; the peers are elements with the generic handle_event, a         *)
(* narrator and the extractor.                                             *)
(***************************************************************************)
EventConfigs ==
    { <<"element", "element">>, <<"element", "sink">>,
      <<"element", "text_narrator">>, <<"element", "extractor">> }

\* element.send_event(event, payload)
CallSendEvent(e, event, payload) ==
    /\ Flowing
    /\ LET st == SendEvent(CallState, QuietEnv, e, event, payload)
       IN  /\ Commit(st)
           /\ last' = [op |-> "send_event", elem |-> e, event |-> event,
                       payload |-> payload, err |-> st.err]
    /\ nops' = nops + 1
    /\ UNCHANGED <<kind, pipe, pc, runIdx, sample, detres>>

NextEvent ==
    \/ \E e \in Elems, d \in Directions : RequestPad(e, d)
    \/ \E a \in PadRefs, b \in PadRefs : LinkForward(a, b)
    \/ \E e \in Elems, ev \in Events, v \in EventPayloads : CallSendEvent(e, ev, v)

SpecEvent == InitWith(EventConfigs) /\ [][NextEvent]_vars

(***************************************************************************)
(* Events handed to elements that have been chained by link_many: two      *)
(* narrators in a row, and a narrator with one or two peers.               *)
(***************************************************************************)
ForwardConfigs ==
    { <<"text_narrator", "image_narrator", "sink">>,
      <<"mailbox_narrator", "text_narrator", "extractor">>,
      <<"image_narrator", "element", "sink">> }

NextForward ==
    \/ \E es \in ElementLists : CallLinkMany(es)
    \/ \E p \in PadRefs, ev \in Events, v \in EventPayloads : CallHandleEvent(p, ev, v)

SpecForward == InitWith(ForwardConfigs) /\ [][NextForward]_vars

(***************************************************************************)
(* Caps as the graph caps.py keeps: the subject node, the dcterms:format   *)
(* and rdfs:label literals, and for every parameter key the objects stored *)
(* under its predicate, in the order they were added.  Parameter values    *)
(* are Python strings, tuples of strings and lists of strings; "" stands   *)
(* for None where the code tests truthiness.                               *)
(***************************************************************************)
MaxItems == 2       \* elements of a tuple or list parameter value

PyStr(s) == [tag |-> "str", s |-> s]

PyTuple(items) == [tag |-> "tuple", items |-> items]

PyList(items) == [tag |-> "list", items |-> items]

PC == "urn:cognita:caps#"

\* the blank node of a Caps built without uri and without name
BNode == "_:b0"

\* str(node): a blank node gives its bare identifier
NodeStr(node) == IF node = BNode THEN "b0" ELSE node

RECURSIVE AddAll(_, _)
\* Graph.add of each value in turn: a triple already in the graph is not
\* added again
AddAll(objects, values) ==
    IF values = <<>> THEN objects
    ELSE AddAll(IF \E i \in 1..Len(objects) : objects[i] = Head(values)
                THEN objects ELSE Append(objects, Head(values)),
                Tail(values))

\* Caps._add_param: the objects one parameter value leaves under its predicate
\* (Literal(v), or URIRef(str(v)) for "broader": the text of v either way)
_add_param(value) ==
    AddAll(<<>>, IF value.tag \in {"list", "tuple"} THEN value.items ELSE <<value.s>>)

\* Caps.__init__(media_type, name, params)
CapsInit(media_type, name, params) ==
    LET uri == IF "uri" \in DOMAIN params /\ params["uri"].tag = "str"
               THEN params["uri"].s ELSE ""
        given == {k \in DOMAIN params \ {"uri"} : _add_param(params[k]) # <<>>}
    IN [ node |-> IF uri # "" THEN uri ELSE IF name # "" THEN PC \o name ELSE BNode,
         format |-> media_type,
         label |-> name,
         props |-> [k \in given |-> _add_param(params[k])] ]

\* Caps.media_type and Caps.name ("" for None)
CapsMediaType(c) == c.format

CapsName(c) == c.label

\* Caps.params: the dictionary rebuilt from the graph
CapsParams(c) ==
    LET kept == {k \in DOMAIN c.props : k = "description" => c.props[k][1] # ""}
    IN [k \in kept \cup {"uri"} |->
           CASE k = "uri" -> PyStr(NodeStr(c.node))
             [] k = "description" -> PyStr(c.props[k][1])
             [] k \in {"extensions", "broader"} -> PyTuple(c.props[k])
             [] OTHER -> IF Len(c.props[k]) = 1 THEN PyStr(c.props[k][1])
                         ELSE PyList(c.props[k])]

\* dict.update
Update(d, new) ==
    [k \in DOMAIN d \cup DOMAIN new |-> IF k \in DOMAIN new THEN new[k] ELSE d[k]]

\* a slip in merge_params: the receiver's own graph takes the new parameters
MergeParamsInPlace(c, new_params) ==
    [ self |-> CapsInit(CapsMediaType(c), CapsName(c), Update(CapsParams(c), new_params)),
      ret |-> CapsInit(CapsMediaType(c), CapsName(c), Update(CapsParams(c), new_params)) ]

\* Caps.merge_params: the receiver after the call and the Caps returned
MergeParams(c, new_params) ==
    [ self |-> c,
      ret |-> CapsInit(CapsMediaType(c), CapsName(c), Update(CapsParams(c), new_params)) ]

ParamKeys == {"description", "extensions", "uri", "fingerprint"}

\* the non-empty tuples and lists a caller gives
Items == {SubSeq(<<"a", "b", "c", "d">>, 1, n) : n \in 1..MaxItems}

\* the values a caller gives under a key
ParamValues(k) ==
    CASE k = "description" -> {PyStr("a"), PyStr("")}
      [] k = "extensions" -> {PyTuple(q) : q \in Items} \cup {PyList(<<"a">>)}
      [] k = "uri" -> {PyStr("urn:x")}
      [] OTHER -> {PyStr("a"), PyStr("b")} \cup {PyList(q) : q \in Items}

ParamMaps ==
    UNION { {d \in [K -> UNION {ParamValues(k) : k \in K}] :
                \A k \in K : d[k] \in ParamValues(k)} : K \in SUBSET ParamKeys }

InitMerge ==
    /\ kind = <<>>
    /\ pads = <<>>
    /\ ecaps = <<>>
    /\ outputs = <<>>
    /\ pipe = [built |-> FALSE, elements |-> <<>>]
    /\ pc = "idle"
    /\ runIdx = 0
    /\ last = NoCall
    /\ trace = <<>>
    /\ raised = <<>>
    /\ nops = 0
    /\ sample \in [media_type : {"text/plain"}, name : {"", "text"},
                   params : ParamMaps, new_params : ParamMaps]
    /\ detres = [caps |-> NoneV, evaluated |-> 0]

\* c = Caps(media_type, name, params); c.merge_params(new_params)
CallMergeParams ==
    /\ last.op # "merge_params"
    /\ LET c == CapsInit(sample.media_type, sample.name, sample.params)
       IN last' = [op |-> "merge_params", err |-> NoError, before |-> c,
                   self |-> MergeParams(c, sample.new_params).self,
                   ret |-> MergeParams(c, sample.new_params).ret]
    /\ UNCHANGED <<kind, pads, ecaps, outputs, pipe, pc, runIdx, trace, raised, nops,
                   sample, detres>>

SpecMerge == InitMerge /\ [][CallMergeParams]_vars


(***************************************************************************)
(* Caps as objects.  A Caps is a Python object, handed around by           *)
(* reference: the detectors, the pads and the narrators' _caps hold        *)
(* references to it.  The heap is the sequence of the Caps objects         *)
(* constructed so far, each one the graph of caps.py; Ref(i) refers to the *)
(* i-th.  The module-level constants of type_finder.py come first.         *)
(***************************************************************************)
Ref(i) == [tag |-> "caps", id |-> i]

CONTENT == PyTuple(<<"urn:cognita:category:content">>)

DOCUMENT_OBJECT ==
    CapsInit("document", "document",
             [description |-> PyStr("Document-like content (pdf, docx, txt, html)."),
              extensions |-> PyTuple(<<"pdf", "docx", "pptx", "xlsx", "txt", "md", "html">>),
              uri |-> PyStr("urn:cognita:caps:document"), broader |-> CONTENT])

MBOX_OBJECT ==
    CapsInit("application/mbox", "application-mbox",
             [description |-> PyStr("Email archive (mbox)."),
              extensions |-> PyTuple(<<"mbox">>),
              uri |-> PyStr("urn:cognita:caps:application-mbox"), broader |-> CONTENT])

EML_OBJECT ==
    CapsInit("message/rfc822", "message-rfc822",
             [description |-> PyStr("Email message (eml/rfc822)."),
              extensions |-> PyTuple(<<"eml">>),
              uri |-> PyStr("urn:cognita:caps:message-rfc822"), broader |-> CONTENT])

\* the objects that exist when the modules are imported
ModuleObjects == <<DOCUMENT_OBJECT, MBOX_OBJECT, EML_OBJECT>>

\* OllamaClient.guess_file_type: the Caps built from an answer that names a
\* rationale and an extension
GuessedCaps ==
    CapsInit("application/octet-stream", "unknown",
             [description |-> PyStr("looks like data"), extensions |-> PyTuple(<<"bin">>)])

\* the call state with the heap
ObjectState ==
    [pads |-> pads, ecaps |-> ecaps, outputs |-> outputs,
     trace |-> <<>>, raised |-> <<>>, err |-> NoError, heap |-> sample]

Deref(st, r) == st.heap[r.id]

\* Caps(...): the new object is the last one of the heap
New(st, object) == [st EXCEPT !.heap = Append(@, object)]

\* _detect_caps, returning the reference HeaderAnalyzer.detect found in the
\* chain or a reference to the Caps the classifier built
ObjDetectCaps(st, env, e) ==
    LET caps == Detect(env.chain).caps
    IN  IF IsCaps(caps) THEN [st |-> st, caps |-> caps, type_source |-> "header"]
        ELSE IF env.clf = "unconfigured"
             THEN [st |-> Raise(st, ErrExhausted), caps |-> NoneV, type_source |-> "header"]
        ELSE LET s1 == Log(st, Call("classify", <<e, 0>>, "", NoneV))
             IN  IF env.clf \in OllamaErrors
                 THEN [st |-> Raise(Raise(s1, env.clf), ErrTypeFinderOllama),
                       caps |-> NoneV, type_source |-> "header"]
                 ELSE [st |-> New(s1, GuessedCaps), caps |-> Ref(Len(s1.heap) + 1),
                       type_source |-> "ollama"]

\* compute_identity: the parameters it returns
IdentityParams(env, caps) ==
    IF ~env.stripped THEN <<>>
    ELSE IF CapsName(caps) = "message-rfc822" /\ env.msgid
    THEN [fingerprint |-> PyStr("<id@example.com>")]
    ELSE [fingerprint |-> PyStr("sha256-hexdigest")]

\* caps.merge_params(new_params) on the object r: the receiver is left as
\* the call leaves it and the Caps returned is a new object
ObjMergeParams(st, r, new_params) ==
    New([st EXCEPT !.heap[r.id] = MergeParams(Deref(st, r), new_params).self],
        MergeParams(Deref(st, r), new_params).ret)

RECURSIVE ObjOnBuffer(_, _, _, _)

RECURSIVE ObjPushSrcFrom(_, _, _, _, _)
\* MboxParser._push_src: the loop from pad k on
ObjPushSrcFrom(st, env, e, k, payload) ==
    IF Failed(st) \/ k > Len(st.pads[e]) THEN st
    ELSE IF st.pads[e][k].direction = SRC /\ st.pads[e][k].peer # NoPeer
    THEN ObjPushSrcFrom(ObjOnBuffer(st, env, st.pads[e][k].peer, payload),
                        env, e, k + 1, payload)
    ELSE ObjPushSrcFrom(st, env, e, k + 1, payload)

RECURSIVE ObjPushMessagesFrom(_, _, _, _)
\* MboxParser.on_buffer: the loop pushing message m and the following ones
ObjPushMessagesFrom(st, env, e, m) ==
    IF Failed(st) \/ m > env.msgs THEN st
    ELSE ObjPushMessagesFrom(ObjPushSrcFrom(st, env, e, 1, BytesV(m)), env, e, m + 1)

\* out_params = pad.caps.params.copy(); out_params["count"] = len(messages)
\* (the number, written in decimal)
OutParams(caps, count) == Update(CapsParams(caps), [count |-> PyStr(ToString(count))])

\* MboxParser.on_buffer, the body of its try block
ObjMboxParse(st, env, p) ==
    ObjPushMessagesFrom(
        AnnounceFrom(New(st, CapsInit("application/mbox", "application-mbox",
                                      OutParams(Deref(st, PadOf(st, p).caps), env.msgs))),
                     env, p[1], 1, Ref(Len(st.heap) + 1)),
        env, p[1], 1)

\* MboxParser.on_buffer
ObjMboxOnBuffer(st, env, p, buffer) ==
    IF PadOf(st, p).direction # SINK THEN st
    ELSE IF ~IsCaps(PadOf(st, p).caps) THEN st
    ELSE IF CapsName(Deref(st, PadOf(st, p).caps)) # "application-mbox" THEN st
    ELSE IF ~(buffer.tag = "dict" /\ "uri" \in buffer.keys) THEN st
    ELSE IF ~env.stripped THEN st
    ELSE ExceptException(ObjMboxParse(st, env, p))

\* on_buffer of the element that owns pad p
ObjOnBuffer(st, env, p, buffer) ==
    IF kind[p[1]] = "mbox_parser"
    THEN ObjMboxOnBuffer(Log(st, Call("on_buffer", p, "", buffer)), env, p, buffer)
    ELSE IF kind[p[1]] = "sink"
    THEN SinkOnBuffer(Log(st, Call("on_buffer", p, "", buffer)), p, buffer)
    ELSE ElementOnBuffer(Log(st, Call("on_buffer", p, "", buffer)), p, buffer)

\* Pad.push
ObjPush(st, env, p, buffer) ==
    IF Failed(st) THEN st
    ELSE IF PadOf(st, p).peer = NoPeer THEN Raise(st, ErrNotLinked)
    ELSE ObjOnBuffer(st, env, PadOf(st, p).peer, buffer)

RECURSIVE ObjSourcePushFrom(_, _, _, _, _, _)
\* DiscreteDataSource.process: the loop over the pads from pad k on
ObjSourcePushFrom(st, env, e, k, caps, payload) ==
    IF Failed(st) \/ k > Len(st.pads[e]) THEN st
    ELSE IF st.pads[e][k].direction = SRC
    THEN ObjSourcePushFrom(ObjPush(SetCaps(st, env, <<e, k>>, caps, TRUE), env, <<e, k>>,
                                   payload),
                           env, e, k + 1, caps, payload)
    ELSE ObjSourcePushFrom(st, env, e, k + 1, caps, payload)

\* the pads are served once the caps have been enriched
ObjEnrichAndPush(st, env, e, caps, type_source) ==
    ObjSourcePushFrom(ObjMergeParams(st, caps, IdentityParams(env, Deref(st, caps))),
                      env, e, 1, Ref(Len(st.heap) + 1),
                      DictV(type_source, {"type_source", "uri"}))

\* DiscreteDataSource.process
ObjSourceProcess(st, env, e) ==
    IF ~env.exists THEN Raise(st, ErrMissingResource)
    ELSE IF Failed(ObjDetectCaps(st, env, e).st) THEN ObjDetectCaps(st, env, e).st
    ELSE ObjEnrichAndPush(ObjDetectCaps(st, env, e).st, env, e,
                          ObjDetectCaps(st, env, e).caps,
                          ObjDetectCaps(st, env, e).type_source)

\* process() of element e
ObjProcess(st, env, e) ==
    IF kind[e] = "source" THEN ObjSourceProcess(st, env, e)
    ELSE IF kind[e] = "element" THEN Raise(st, ErrNotImplemented)
    ELSE st

RECURSIVE ObjRunFrom(_, _, _)
\* Pipeline.run: the loop from position i on
ObjRunFrom(st, env, i) ==
    IF Failed(st) \/ i > Len(pipe.elements) THEN st
    ELSE ObjRunFrom(ObjProcess(st, env, ElementAt(i)), env, i + 1)

ObjectConfigs == { <<"source", "mbox_parser", "sink">>, <<"source", "sink", "sink">> }

\* the detector chain of the source: each detector holds a reference to one
\* of the constants
ObjectChains ==
    {<<>>} \cup {<<Detector(Ref(i), "T")>> : i \in DOMAIN ModuleObjects}

ObjectEnvs ==
    {Env(f, m, c, k, "empty") : f \in {"missing", "mailbox", "message"}, m \in 0..MaxMsgs,
                                 c \in ObjectChains, k \in {"unconfigured", "caps"}}

InitObjects ==
    /\ kind \in ObjectConfigs
    /\ pads = [e \in DOMAIN kind |-> <<>>]
    /\ ecaps = [e \in DOMAIN kind |-> NoneV]
    /\ outputs = [e \in DOMAIN kind |-> <<>>]
    /\ pipe = [built |-> FALSE, elements |-> <<>>]
    /\ pc = "idle"
    /\ runIdx = 0
    /\ last = NoCall
    /\ trace = <<>>
    /\ raised = <<>>
    /\ nops = 0
    /\ sample = ModuleObjects
    /\ detres = [caps |-> NoneV, evaluated |-> 0]

\* pipeline.run(), with the Caps objects it leaves behind
CallRunObjects(env) ==
    /\ Flowing
    /\ pipe.built
    /\ Commit(ObjRunFrom(ObjectState, env, 1))
    /\ sample' = ObjRunFrom(ObjectState, env, 1).heap
    /\ last' = [op |-> "run", err |-> ObjRunFrom(ObjectState, env, 1).err, env |-> env]
    /\ nops' = nops + 1
    /\ UNCHANGED <<kind, pipe, pc, runIdx, detres>>

NextObjects ==
    \/ \E es \in ChainLists : NewPipeline(es)
    \/ \E env \in ObjectEnvs : CallRunObjects(env)

SpecObjects == InitObjects /\ [][NextObjects]_vars


(***************************************************************************)
(* Pipelines that start with a source of either class, run as a whole once *)
(* or twice, the file being there or not.                                  *)
(***************************************************************************)
ResourceConfigs ==
    { <<"source", "sink">>, <<"stream_source", "sink">>,
      <<"stream_source", "text_narrator", "sink">> }

NextResource ==
    \/ \E es \in ChainLists : NewPipeline(es)
    \/ \E env \in ProcessEnvs : CallRun(env)

SpecResource == InitWith(ResourceConfigs) /\ [][NextResource]_vars


(***************************************************************************)
(* A sink at the end of a pipeline, with or without a pad of its own that  *)
(* nothing is linked to: runs of the pipeline, and buffers and caps handed *)
(* to the sink's pads directly.                                            *)
(***************************************************************************)
SinkConfigs == { <<"source", "sink">>, <<"element", "sink">> }

\* text, a record with a narration, a record without, message bytes
SinkBuffers ==
    { StrV("hello", 80), StrV("", 0),
      DictV("header", {"image_description", "type_source"}),
      DictV("llm", {"type_source", "uri"}),
      BytesV(1) }

NextSink ==
    \/ \E e \in Elems : kind[e] = "sink" /\ RequestPad(e, SINK)
    \/ \E es \in ChainLists : NewPipeline(es)
    \/ \E p \in PadRefs, c \in CapsValues, g \in BOOLEAN : CallSetCaps(p, c, g)
    \/ \E p \in PadRefs, b \in SinkBuffers : CallOnBuffer(p, b)
    \/ \E env \in ProcessEnvs : CallRun(env)

SpecSink == InitWith(SinkConfigs) /\ [][NextSink]_vars


(***************************************************************************)
(* MboxParser between an upstream element and a sink or an extractor: pads *)
(* are requested and linked, caps are set on the upstream pad, and buffers *)
(* are handed to the parser's on_buffer.                                   *)
(***************************************************************************)
ParserConfigs ==
    { <<"element", "mbox_parser", "sink">>, <<"element", "mbox_parser", "extractor">> }

\* upstream caps, with and without a fingerprint
ParserCaps ==
    { DOCUMENT_CAPS, MBOX_CAPS, [MBOX_CAPS EXCEPT !.params.fingerprint = "sha256"] }

\* element.on_buffer(pad, buffer), called directly for a pad of the element,
\* with the file and the model as they are at the time
CallOnBufferIn(p, buffer, env) ==
    /\ Flowing
    /\ IsPad(p)
    /\ LET st == OnBuffer(CallState, env, p, buffer)
       IN  /\ Commit(st)
           /\ last' = [op |-> "on_buffer", pad |-> p, buffer |-> buffer, env |-> env,
                       err |-> st.err]
    /\ nops' = nops + 1
    /\ UNCHANGED <<kind, pipe, pc, runIdx, sample, detres>>

NextParser ==
    \/ \E e \in Elems : kind[e] = "mbox_parser" /\ RequestPad(e, SRC)
    \/ \E es \in ElementLists : CallLinkMany(es)
    \/ \E p \in PadRefs, c \in ParserCaps : CallSetCaps(p, c, TRUE)
    \/ \E p \in PadRefs, b \in Buffers, env \in FlowEnvs :
          kind[p[1]] = "mbox_parser" /\ CallOnBufferIn(p, b, env)

SpecParser == InitWith(ParserConfigs) /\ [][NextParser]_vars


(***************************************************************************)
(* Buffer (buffer.py): bytes with a read cursor.  The buffer under study   *)
(* is held in sample; last records the call, what it returned, and the     *)
(* chunks returned since the cursor was last at the start, joined.         *)
(***************************************************************************)
MaxLen == 3         \* bytes of data in a Buffer
MaxReads == 4       \* read and rewind calls made on one Buffer

ByteValues == {0, 255}

RECURSIVE BytesOf(_)
\* the byte strings of length n
BytesOf(n) ==
    IF n = 0 THEN {<<>>} ELSE {Append(s, b) : s \in BytesOf(n - 1), b \in ByteValues}

\* Buffer(data)
BufferInit(data) == [_data |-> data, _pos |-> 0]

Smaller(a, b) == IF a < b THEN a ELSE b

\* data[lo:hi] for 0 <= lo
Slice(data, lo, hi) == SubSeq(data, lo + 1, Smaller(hi, Len(data)))

\* a slip in read: the cursor advances by the size asked for
ReadAdvancesBySize(b, size) ==
    LET n == IF size = <<>> \/ size[1] < 0 THEN Len(b._data) - b._pos ELSE size[1]
        end == Smaller(b._pos + n, Len(b._data))
    IN  [self |-> [b EXCEPT !._pos = b._pos + n],
         ret |-> Slice(b._data, b._pos, end)]

\* Buffer.read; size is <<>> for None and <<n>> for the integer n
Read(b, size) ==
    LET n == IF size = <<>> \/ size[1] < 0 THEN Len(b._data) - b._pos ELSE size[1]
        end == Smaller(b._pos + n, Len(b._data))
    IN  [self |-> [b EXCEPT !._pos = end],
         ret |-> Slice(b._data, b._pos, end)]

\* Buffer.remaining
Remaining(b) == Len(b._data) - b._pos

\* Buffer.rewind
Rewind(b) == [b EXCEPT !._pos = 0]

Sizes == {<<>>} \cup {<<n>> : n \in -1..(MaxLen + 1)}

InitBuffer ==
    /\ kind = <<>>
    /\ pads = <<>>
    /\ ecaps = <<>>
    /\ outputs = <<>>
    /\ pipe = [built |-> FALSE, elements |-> <<>>]
    /\ pc = "idle"
    /\ runIdx = 0
    /\ last = [op |-> "Buffer", err |-> NoError, read |-> <<>>]
    /\ trace = <<>>
    /\ raised = <<>>
    /\ nops = 0
    /\ sample \in {BufferInit(data) : data \in UNION {BytesOf(n) : n \in 0..MaxLen}}
    /\ detres = [caps |-> NoneV, evaluated |-> 0]

\* buffer.read(size)
CallRead(size) ==
    /\ nops < MaxReads
    /\ sample' = Read(sample, size).self
    /\ last' = [op |-> "read", err |-> NoError, size |-> size,
                ret |-> Read(sample, size).ret,
                read |-> last.read \o Read(sample, size).ret]
    /\ nops' = nops + 1
    /\ UNCHANGED <<kind, pads, ecaps, outputs, pipe, pc, runIdx, trace, raised, detres>>

\* buffer.rewind()
CallRewind ==
    /\ nops < MaxReads
    /\ sample' = Rewind(sample)
    /\ last' = [op |-> "rewind", err |-> NoError, read |-> <<>>]
    /\ nops' = nops + 1
    /\ UNCHANGED <<kind, pads, ecaps, outputs, pipe, pc, runIdx, trace, raised, detres>>

NextBuffer ==
    \/ \E size \in Sizes : CallRead(size)
    \/ CallRewind

SpecBuffer == InitBuffer /\ [][NextBuffer]_vars


(***************************************************************************)
(* A source before a sink, run on files named with and without a space,    *)
(* behind locations written as plain paths and as file:// URIs, escaped    *)
(* (as pathlib's as_uri writes them) or not.                               *)
(***************************************************************************)
IdentityConfigs == { <<"source", "sink">> }

IdentityUris ==
    { Uri(TRUE, <<"/", "a">>),
      Uri(TRUE, <<"/", "a", "%20", "b">>),
      Uri(TRUE, <<"/", "a", " ", "b">>),
      Uri(TRUE, <<"localhost", "/", "a">>),
      Uri(FALSE, <<"/", "a", " ", "b">>),
      Uri(FALSE, <<"/", "a">>) }

\* the files on disk
IdentityFiles == { {<<"/", "a">>}, {<<"/", "a", " ", "b">>}, {} }

\* what the detector chain makes of the file
IdentityDetections ==
    {<<>>} \cup {<<Detector(c, "T")>> : c \in {DOCUMENT_CAPS, EML_CAPS, MBOX_CAPS}}

IdentityEnvs ==
    {EnvAt(u, fs, f, MaxMsgs, c, k, "empty") :
        u \in IdentityUris, fs \in IdentityFiles, f \in {"mailbox", "message", "other"},
        c \in IdentityDetections, k \in {"unconfigured", "caps"}}

NextIdentity ==
    \/ \E es \in ChainLists : NewPipeline(es)
    \/ \E env \in IdentityEnvs : CallRun(env)

SpecIdentity == InitWith(IdentityConfigs) /\ [][NextIdentity]_vars


(***************************************************************************)
(* Caps.__eq__ on two Caps built from arguments, and on a Caps and what    *)
(* merge_params({}) makes of it.                                           *)
(***************************************************************************)
\* Caps._map_key_to_predicate
_map_key_to_predicate(key) ==
    CASE key = "description" -> "rdfs:comment"
      [] key = "extensions" -> "schema:fileExtension"
      [] key = "broader" -> "rdfs:subClassOf"
      [] OTHER -> "param:" \o key

\* the triples of the graph of a Caps
Triples(c) ==
    {<<c.node, "rdf:type", "pc:Caps">>}
    \cup (IF c.format # "" THEN {<<c.node, "dcterms:format", c.format>>} ELSE {})
    \cup (IF c.label # "" THEN {<<c.node, "rdfs:label", c.label>>} ELSE {})
    \cup UNION { {<<c.node, _map_key_to_predicate(k), c.props[k][i]>> :
                     i \in 1..Len(c.props[k])} : k \in DOMAIN c.props }

\* rdflib.compare.to_isomorphic: the triples with the blank node, if there
\* is one, under its canonical label
to_isomorphic(c) == Triples(c)

\* a slip in __eq__: the label and the format alone are compared
CapsEqByLabel(a, b) == a.format = b.format /\ a.label = b.label

\* Caps.__eq__
CapsEq(a, b) == to_isomorphic(a) = to_isomorphic(b)

\* the values a caller gives under a key
EqValues(k) ==
    CASE k = "description" -> {PyStr("a"), PyStr("")}
      [] k = "extensions" -> {PyTuple(<<"a", "b">>), PyTuple(<<"b", "a">>)}
      [] k = "uri" -> {PyStr("urn:x")}
      [] OTHER -> {PyStr("a"), PyStr("b")}

EqParamMaps ==
    UNION { {d \in [K -> UNION {EqValues(k) : k \in K}] :
                \A k \in K : d[k] \in EqValues(k)} : K \in SUBSET ParamKeys }

InitEq ==
    /\ kind = <<>>
    /\ pads = <<>>
    /\ ecaps = <<>>
    /\ outputs = <<>>
    /\ pipe = [built |-> FALSE, elements |-> <<>>]
    /\ pc = "idle"
    /\ runIdx = 0
    /\ last = NoCall
    /\ trace = <<>>
    /\ raised = <<>>
    /\ nops = 0
    /\ sample \in [a : {CapsInit("text/plain", n, d) : n \in {"", "text"}, d \in EqParamMaps},
                   b : {CapsInit(t, n, d) : t \in {"text/plain", "image/png"},
                                            n \in {"", "text"}, d \in EqParamMaps}]
    /\ detres = [caps |-> NoneV, evaluated |-> 0]

\* a == b, with b == a and a == a
CallEq ==
    /\ last.op = "none"
    /\ last' = [op |-> "eq", err |-> NoError,
                ret |-> CapsEq(sample.a, sample.b),
                reverse |-> CapsEq(sample.b, sample.a),
                self |-> CapsEq(sample.a, sample.a)]
    /\ UNCHANGED <<kind, pads, ecaps, outputs, pipe, pc, runIdx, trace, raised, nops,
                   sample, detres>>

\* a == a.merge_params({})
CallEqMerged ==
    /\ last.op = "none"
    /\ last' = [op |-> "eq_merged", err |-> NoError,
                merged |-> MergeParams(sample.a, <<>>).ret,
                ret |-> CapsEq(sample.a, MergeParams(sample.a, <<>>).ret)]
    /\ UNCHANGED <<kind, pads, ecaps, outputs, pipe, pc, runIdx, trace, raised, nops,
                   sample, detres>>

NextEq == CallEq \/ CallEqMerged

SpecEq == InitEq /\ [][NextEq]_vars


(***************************************************************************)
(* Linear pipelines from a source to a sink, with narrators, the parser    *)
(* and the extractor between them, run once or twice.                      *)
(***************************************************************************)
LinearConfigs ==
    { <<"source", "text_narrator", "sink">>,
      <<"source", "image_narrator", "sink">>,
      <<"source", "extractor", "sink">>,
      <<"source", "mbox_parser", "mailbox_narrator", "sink">>,
      <<"stream_source", "mbox_parser", "sink">> }

LinearEnvs ==
    {Env(f, MaxMsgs, c, k, t) :
        f \in {"mailbox", "text"},
        c \in {<<>>} \cup {<<Detector(d, "T")>> : d \in {IMAGE_CAPS, MBOX_CAPS, TEXT_CAPS}},
        k \in {"unconfigured", "caps"}, t \in ModelReplies}

NextLinear ==
    \/ \E es \in ChainLists : NewPipeline(es)
    \/ \E env \in LinearEnvs : CallRun(env)

SpecLinear == InitWith(LinearConfigs) /\ [][NextLinear]_vars


(***************************************************************************)
(* An element that announces output caps, with a sink pad and source pads  *)
(* of which some are linked to the pads of a sink and some to nothing.     *)
(***************************************************************************)
MaxAnnouncerPads == 3   \* pads of the announcing element

AnnouncerConfigs ==
    { <<"mailbox_narrator", "sink">>, <<"extractor", "sink">>, <<"mbox_parser", "sink">> }

AnnouncerBuffers ==
    { StrV("hello", 80), DictV("header", {"type_source", "uri"}), BytesV(1) }

\* a mailbox of one message; the model answers with text or with nothing
AnnouncerEnvs == {Env("mailbox", 1, <<>>, "unconfigured", t) : t \in {"text", "empty"}}

AnnouncerPadRefs == {<<e, i>> : e \in Elems, i \in 1..MaxAnnouncerPads}

\* announcer.request_pad(direction)
RequestAnnouncerPad(direction) ==
    /\ Building
    /\ Len(pads[1]) < MaxAnnouncerPads
    /\ LET st == RequestPadOn(CallState, 1, direction, <<>>)
       IN  /\ Commit(st)
           /\ last' = [op |-> "request_pad", elem |-> 1, direction |-> direction,
                       err |-> st.err]
    /\ UNCHANGED <<kind, pipe, pc, runIdx, nops, sample, detres>>

NextAnnounce ==
    \/ \E d \in Directions : RequestAnnouncerPad(d)
    \/ RequestPad(2, SINK)
    \/ \E a \in AnnouncerPadRefs, b \in PadRefs : LinkForward(a, b)
    \/ \E p \in AnnouncerPadRefs, c \in {MBOX_CAPS, TEXT_CAPS}, g \in BOOLEAN :
          CallSetCaps(p, c, g)
    \/ \E p \in AnnouncerPadRefs, b \in AnnouncerBuffers, env \in AnnouncerEnvs :
          p[1] = 1 /\ CallOnBufferIn(p, b, env)

SpecAnnounce == InitWith(AnnouncerConfigs) /\ [][NextAnnounce]_vars


(***************************************************************************)
(* Properties                                                              *)
(***************************************************************************)
PadAt(ps, p) == ps[p[1]][p[2]]

\* the pads of ps other than those in the set S are as in qs
SameExcept(ps, qs, S) ==
    /\ DOMAIN ps = DOMAIN qs
    /\ \A e \in DOMAIN ps :
         /\ Len(ps[e]) = Len(qs[e])
         /\ \A i \in 1..Len(ps[e]) : <<e, i>> \notin S => ps[e][i] = qs[e][i]

\* C1: a.link(b) succeeds exactly when both pads are unlinked and their
\* directions differ; on success each pad is the other's peer and nothing else
\* changes; otherwise it fails with a ValueError and neither pad is modified.
C1_LinkContract ==
    [][ last'.op = "link" =>
          LET a == last'.a
              b == last'.b
              ok == /\ PadAt(pads, a).peer = NoPeer
                    /\ PadAt(pads, b).peer = NoPeer
                    /\ PadAt(pads, a).direction # PadAt(pads, b).direction
          IN  /\ (last'.err = NoError) <=> ok
              /\ ok => /\ PadAt(pads', a) = [PadAt(pads, a) EXCEPT !.peer = b]
                       /\ PadAt(pads', b) = [PadAt(pads, b) EXCEPT !.peer = a]
                       /\ SameExcept(pads', pads, {a, b})
              /\ ~ok => /\ last'.err \in LinkErrors
                        /\ pads' = pads
              /\ trace' = <<>>
      ]_vars

\* a link has succeeded, and the two pads name each other
C1_Linked ==
    /\ last.op = "link"
    /\ last.err = NoError
    /\ PadAt(pads, last.a).peer = last.b
    /\ PadAt(pads, last.b).peer = last.a

\* a link has been refused for a pad that already had a peer
C1_Refused ==
    /\ last.op = "link"
    /\ last.err = ErrAlreadyLinked
    /\ \E p \in {last.a, last.b} : PadAt(pads, p).peer \notin {NoPeer, last.a, last.b}

\* the positions of the trace at which handler `name` of element e is invoked
InvocationsOn(tr, name, e) ==
    {k \in DOMAIN tr : tr[k].call = name /\ tr[k].elem = e}

\* C2: push on a linked source pad invokes the peer element's on_buffer
\* exactly once, with the peer pad and the same payload, and leaves the pushing
\* pad as it was (a pad has no slot for a buffer); push on a sink pad or on an
\* unlinked source pad fails with a ValueError and invokes no handler.
C2_PushContract ==
    [][ last'.op = "push" =>
          LET p == last'.pad
              me == PadAt(pads, p)
              ok == me.direction = SRC /\ me.peer # NoPeer
          IN  /\ me.direction # SRC => last'.err = ErrPushNotSrc
              /\ (me.direction = SRC /\ me.peer = NoPeer) => last'.err = ErrNotLinked
              /\ ~ok => /\ trace' = <<>>
                        /\ pads' = pads /\ ecaps' = ecaps /\ outputs' = outputs
              /\ ok => /\ InvocationsOn(trace', "on_buffer", me.peer[1]) = {1}
                       /\ trace'[1] = Call("on_buffer", me.peer, "", last'.buffer)
                       /\ PadAt(pads', p) = me
                       /\ DOMAIN PadAt(pads', p) = {"name", "direction", "peer", "caps"}
      ]_vars

\* a push has gone through a link and the receiving element took the buffer
C2_Pushed ==
    /\ last.op = "push"
    /\ last.err = NoError
    /\ PadAt(pads, last.pad).peer # NoPeer
    /\ trace # <<>>
    /\ trace[1].call = "on_buffer"
    /\ trace[1].payload = last.buffer

\* a push has been refused on an unlinked source pad
C2_PushRefused ==
    /\ last.op = "push"
    /\ last.err = ErrNotLinked
    /\ trace = <<>>

\* C3: set_caps stores the Caps on the pad whatever else happens; with
\* propagate set and the pad a linked source pad, the peer's element receives
\* exactly one caps event, for the peer pad and carrying those Caps; with
\* propagate unset, or on a sink pad, no event is sent.
C3_SetCapsContract ==
    [][ last'.op = "set_caps" =>
          LET p == last'.pad
              me == PadAt(pads, p)
          IN  /\ PadAt(pads', p).caps = last'.caps
              /\ (last'.propagate /\ me.direction = SRC /\ me.peer # NoPeer) =>
                    /\ trace' # <<>>
                    /\ trace'[1] = Call("handle_event", me.peer, "caps", last'.caps)
                    /\ {k \in InvocationsOn(trace', "handle_event", me.peer[1]) :
                          trace'[k].pad = me.peer[2]} = {1}
              /\ (~last'.propagate \/ me.direction = SINK) =>
                    /\ trace' = <<>>
                    /\ last'.err = NoError
                    /\ SameExcept(pads', pads, {p})
              /\ (last'.propagate /\ me.direction = SRC /\ me.peer = NoPeer) =>
                    trace' = <<>>
      ]_vars

\* set_caps has propagated over a link: the peer's element got the event
C3_Propagated ==
    /\ last.op = "set_caps"
    /\ last.propagate
    /\ PadAt(pads, last.pad).direction = SRC
    /\ PadAt(pads, last.pad).peer # NoPeer
    /\ PadAt(pads, last.pad).caps = last.caps
    /\ trace # <<>>
    /\ trace[1].call = "handle_event"

\* set_caps without propagation on a linked source pad
C3_NotPropagated ==
    /\ last.op = "set_caps"
    /\ ~last.propagate
    /\ PadAt(pads, last.pad).direction = SRC
    /\ PadAt(pads, last.pad).peer # NoPeer
    /\ PadAt(pads, last.pad).caps = last.caps
    /\ trace = <<>>

\* the classes that keep Element.handle_event
GenericKinds == Kinds \ (NarratorKinds \cup {"extractor", "image_narrator"})

\* C4: the generic Element.handle_event stores a Caps payload of a caps event
\* on the receiving pad; a caps event with another payload fails with a
\* TypeError and the pad's Caps stay as they were; any other event fails with
\* NotImplementedError.
C4_HandleEventContract ==
    [][ (last'.op = "handle_event" /\ kind[last'.pad[1]] \in GenericKinds) =>
          LET p == last'.pad
          IN  /\ (last'.event = "caps" /\ IsCaps(last'.payload)) =>
                    /\ last'.err = NoError
                    /\ PadAt(pads', p).caps = last'.payload
                    /\ SameExcept(pads', pads, {p})
              /\ (last'.event = "caps" /\ ~IsCaps(last'.payload)) =>
                    /\ last'.err = ErrCapsType
                    /\ pads' = pads
              /\ last'.event # "caps" =>
                    /\ last'.err = ErrUnhandledEvent
                    /\ pads' = pads
      ]_vars

\* a caps event with a payload that is no Caps has been refused, and the pad
\* still holds the Caps it had
C4_Refused ==
    /\ last.op = "handle_event"
    /\ kind[last.pad[1]] \in GenericKinds
    /\ last.event = "caps"
    /\ last.payload = NoneV
    /\ last.err = ErrCapsType
    /\ IsCaps(PadAt(pads, last.pad).caps)

\* a caps event has been stored by the generic handler
C4_Stored ==
    /\ last.op = "handle_event"
    /\ kind[last.pad[1]] \in GenericKinds
    /\ last.event = "caps"
    /\ last.err = NoError
    /\ PadAt(pads, last.pad).caps = last.payload

\* the detectors of the sample's chain whose predicate returns true
Matches == {i \in DOMAIN sample : sample[i].outcome = "T"}

\* C5: detect returns the Caps of the first detector, in list order, whose
\* predicate returns true on the sample; a predicate that raises counts as
\* false and the scan goes on; the result is none exactly when no predicate
\* returns true; no detector after the first match is evaluated.
C5_FirstMatch ==
    last.op = "detect" =>
      /\ (detres.caps = NoneV) <=> (Matches = {})
      /\ Matches = {} => detres.evaluated = Len(sample)
      /\ Matches # {} =>
           LET first == CHOOSE i \in Matches : \A j \in Matches : i <= j
           IN  /\ detres.caps = sample[first].caps
               /\ detres.evaluated = first

\* detect has skipped a raising predicate and returned a later match, with
\* another match behind it that names other Caps
C5_SkippedRaise ==
    /\ last.op = "detect"
    /\ \E i, j, k \in DOMAIN sample :
         /\ i < j /\ j < k
         /\ sample[i].outcome = "X"
         /\ \A h \in 1..(j - 1) : sample[h].outcome # "T"
         /\ sample[j].outcome = "T"
         /\ sample[k].outcome = "T"
         /\ sample[k].caps # sample[j].caps
         /\ detres.caps = sample[j].caps

\* C6: every error raised while an element processes reaches the caller of
\* Pipeline.run as that same error; no element swallows it or replaces it.
\* Stated on the errors recorded during a run: while the loop goes on none has
\* been raised, and once run has ended each raised error is the one run ended with.
C6_ErrorsPropagate ==
    (last.op \in {"process", "run"}) =>
        \A k \in DOMAIN raised : raised[k] = last.err

\* a run has returned normally although a handler inside it failed to negotiate
C6_Swallowed ==
    /\ last.op = "run"
    /\ last.err = NoError
    /\ ErrNegotiation \in {raised[k] : k \in DOMAIN raised}

IsProcessCall(ev) == ev.call = "process"

\* the elements whose process() has been entered, in the order of entry
Processed == [i \in DOMAIN SelectSeq(trace, IsProcessCall) |->
                SelectSeq(trace, IsProcessCall)[i].elem]

\* each process() call of the trace has returned before the next is entered
OneAtATime ==
    \A k \in DOMAIN trace :
        trace[k].call = "process" =>
            \E r \in DOMAIN trace :
                /\ r > k
                /\ trace[r].call = "return"
                /\ trace[r].elem = trace[k].elem
                /\ \A m \in (k + 1)..(r - 1) : trace[m].call \notin {"process", "return"}

\* C7: a run that returns has called process() on every element exactly once,
\* in construction-list order, each call returning before the next begins, and
\* returns the last element's output, or none when that element has no output
\* or the pipeline is empty.
C7_RunOrder ==
    /\ pc = "running" =>
          /\ Processed = SubSeq(pipe.elements, 1, runIdx - 1)
          /\ OneAtATime
    /\ (last.op = "run" /\ last.err = NoError) =>
          /\ Processed = pipe.elements
          /\ OneAtATime
          /\ last.ret =
               IF pipe.elements = <<>> THEN NoneV
               ELSE LET e == pipe.elements[Len(pipe.elements)]
                    IN  IF kind[e] = "sink" /\ outputs[e] # <<>>
                        THEN [tag |-> "joined", lines |-> outputs[e]]
                        ELSE NoneV

\* a run over three elements has returned the sink's output, the source
\* having pushed through the chain from inside its process()
C7_Returned ==
    /\ last.op = "run"
    /\ last.err = NoError
    /\ Len(pipe.elements) = 3
    /\ last.ret # NoneV
    /\ InvocationsOn(trace, "on_buffer", pipe.elements[3]) # {}

\* no element of es is asked for a pad of a direction its class rejects
DirectionsAllowed(es) ==
    \A i \in 1..(Len(es) - 1) : kind[es[i]] # "sink" /\ kind[es[i + 1]] # "source"

\* where link_many(es) puts the source pad of es[i] and the sink pad of es[i]
NewSrcIndex(es, i) == Len(pads[es[i]]) + (IF i > 1 THEN 2 ELSE 1)

NewSinkIndex(es, i) == Len(pads[es[i]]) + 1

\* what link_many(es) on two or more distinct elements is to do, in one step
LinkManyEffect(es) ==
    LET n == Len(es)
    IN  /\ last'.err = NoError
        /\ \A e \in Elems : (\A i \in 1..n : es[i] # e) => pads'[e] = pads[e]
        /\ \A i \in 1..n :
             LET e == es[i]
                 old == Len(pads[e])
             IN  /\ Len(pads'[e]) = old + (IF i > 1 THEN 1 ELSE 0) + (IF i < n THEN 1 ELSE 0)
                 /\ SubSeq(pads'[e], 1, old) = pads[e]
                 /\ i > 1 =>
                      /\ pads'[e][NewSinkIndex(es, i)].direction = SINK
                      /\ pads'[e][NewSinkIndex(es, i)].peer = <<es[i - 1], NewSrcIndex(es, i - 1)>>
                      /\ pads'[e][NewSinkIndex(es, i)].caps = NoneV
                 /\ i < n =>
                      /\ pads'[e][NewSrcIndex(es, i)].direction = SRC
                      /\ pads'[e][NewSrcIndex(es, i)].peer = <<es[i + 1], NewSinkIndex(es, i + 1)>>
                      /\ pads'[e][NewSrcIndex(es, i)].caps = NoneV
        /\ trace' = <<>>
        /\ ecaps' = ecaps

\* C8 as stated: link_many on n >= 2 distinct elements creates one new source
\* pad on each but the last and one new sink pad on each but the first (sink
\* pad before source pad), links them pairwise, sets no caps and invokes no
\* handler; with fewer than 2 elements it creates no pad.
C8_LinkManyAlways ==
    [][ last'.op \in {"link_many", "Pipeline"} =>
          /\ Len(last'.elements) < 2 => (pads' = pads /\ last'.err = NoError)
          /\ Len(last'.elements) >= 2 => LinkManyEffect(last'.elements)
      ]_vars

\* C8, amended: the same, for elements none of which rejects the direction
\* asked of it (no SinkElement before the last place, no SourceElement after
\* the first).
C8_LinkManyAllowed ==
    [][ last'.op \in {"link_many", "Pipeline"} =>
          /\ Len(last'.elements) < 2 => (pads' = pads /\ last'.err = NoError)
          /\ (Len(last'.elements) >= 2 /\ DirectionsAllowed(last'.elements)) =>
                LinkManyEffect(last'.elements)
      ]_vars

\* link_many has chained three elements, the middle one gaining a sink pad
\* and then a source pad
C8_Chained ==
    /\ last.op = "link_many"
    /\ last.err = NoError
    /\ Len(last.elements) = 3
    /\ LET e == last.elements[2]
           n == Len(pads[e])
       IN  /\ n >= 2
           /\ pads[e][n - 1].direction = SINK
           /\ pads[e][n - 1].peer[1] = last.elements[1]
           /\ pads[e][n].direction = SRC
           /\ pads[e][n].peer[1] = last.elements[3]

\* the positions of the calls made during the step: a step of run() extends
\* the trace of the run, any other call starts a trace of its own
NewCalls ==
    IF last'.op \in {"process", "run"} THEN (Len(trace) + 1)..Len(trace')
    ELSE DOMAIN trace'

\* C9: whenever a caps event offers the TripleExtractor Caps it cannot process
\* (Caps not named plain-text), the event fails with CapsNegotiationError and
\* the rejected Caps are not recorded in the caps slot of the pad the event
\* came in on, whichever element delivered the event.
C9_StrictNegotiation ==
    [][ \A k \in NewCalls :
          LET ev == trace'[k]
          IN  (/\ ev.call = "handle_event"
               /\ kind[ev.elem] = "extractor"
               /\ ev.event = "caps"
               /\ IsCaps(ev.payload)
               /\ ev.payload.name # "plain-text") =>
                  /\ \E r \in DOMAIN raised' : raised'[r] = ErrNegotiation
                  /\ \/ pads'[ev.elem][ev.pad].caps # ev.payload
                     \/ pads[ev.elem][ev.pad].caps = ev.payload
      ]_vars

\* the pad a buffer comes in on: the pad named in a direct on_buffer call, the
\* peer of the pad pushed on otherwise
ArrivalPad(call) == IF call.op = "on_buffer" THEN call.pad ELSE PadAt(pads, call.pad).peer

\* a buffer arrives at an element: by a direct on_buffer call or by a push
\* on a linked source pad
Arrives(call) ==
    \/ call.op = "on_buffer"
    \/ /\ call.op = "push"
       /\ PadAt(pads, call.pad).direction = SRC
       /\ PadAt(pads, call.pad).peer # NoPeer

\* the caps Narrator.on_buffer looks at for a buffer arriving on pad q
UpstreamCaps(q) == IF IsCaps(ecaps[q[1]]) THEN ecaps[q[1]] ELSE PadAt(pads, q).caps

\* _can_process is false for the buffer on pad q, whatever the files on disk
Rejects(q, buffer) ==
    /\ kind[q[1]] \in NarratorKinds
    /\ \A env \in FlowEnvs : ~CanProcess(env, q[1], UpstreamCaps(q), buffer)

\* the linked peers of the source pads of element e
PeersOf(e) ==
    {pads[e][i].peer : i \in {j \in DOMAIN pads[e] :
                                pads[e][j].direction = SRC /\ pads[e][j].peer # NoPeer}}

\* the positions of the trace at which on_buffer is invoked for pad r
Deliveries(tr, r) == {k \in InvocationsOn(tr, "on_buffer", r[1]) : tr[k].pad = r[2]}

\* C10: when a buffer arrives at a Narrator and _can_process is false, the
\* narrator hands exactly that payload, unmodified, to the on_buffer of each
\* linked peer of its source pads, once each (up to the first peer that
\* fails), sends no caps event to them, and leaves its own caps, the caps of
\* its pads and the caps of those peers unchanged.
C10_Passthrough ==
    [][ (/\ last'.op \in {"on_buffer", "push"}
         /\ Arrives(last')
         /\ Rejects(ArrivalPad(last'), last'.buffer)) =>
          LET n == ArrivalPad(last')[1]
          IN  /\ \A r \in PeersOf(n) :
                   /\ Cardinality(Deliveries(trace', r)) <= 1
                   /\ last'.err = NoError => Cardinality(Deliveries(trace', r)) = 1
                   /\ \A k \in Deliveries(trace', r) : trace'[k].payload = last'.buffer
                   /\ InvocationsOn(trace', "handle_event", r[1]) = {}
                   /\ PadAt(pads', r).caps = PadAt(pads, r).caps
              /\ pads'[n] = pads[n]
              /\ ecaps'[n] = ecaps[n]
      ]_vars

\* a narrator has passed a buffer it cannot process on to a linked peer
C10_PassedThrough ==
    /\ last.op = "on_buffer"
    /\ last.err = NoError
    /\ Rejects(last.pad, last.buffer)
    /\ PeersOf(last.pad[1]) # {}
    /\ IsCaps(UpstreamCaps(last.pad))
    /\ \A r \in PeersOf(last.pad[1]) :
         \E k \in Deliveries(trace, r) : trace[k].payload = last.buffer

(***************************************************************************)
(* Narrators in a chain                                                    *)
(***************************************************************************)
NarratorFamily == NarratorKinds \cup {"image_narrator"}

\* the payload of the latest caps event handed to element n before position
\* i of the trace: the caps n has most recently received from upstream
LatestCaps(tr, n, i) ==
    LET S == {j \in 1..(i - 1) : /\ tr[j].call = "handle_event"
                                 /\ tr[j].elem = n
                                 /\ tr[j].event = "caps"}
    IN  IF S = {} THEN NoneV
        ELSE tr[CHOOSE j \in S : \A k \in S : k <= j].payload

\* the buffer is one the element n narrates when it judges it by caps
ProcessableUnder(n, caps, payload) ==
    /\ IsCaps(caps)
    /\ IF kind[n] = "image_narrator"
       THEN caps.name = "image-photo" /\ payload.tag = "dict"
       ELSE CanProcess(QuietEnv, n, caps, payload) /\ Truthy(Narrate(QuietEnv, n, payload))

\* the texts a narrator produces
NarrationTexts == {"narration", "message", "mailbox", "description", "Image bytes unavailable"}

IsNarration(payload) == payload.tag = "str" /\ payload.text \in NarrationTexts

\* the positions after i at which on_buffer is invoked for a peer of n, up to
\* the next buffer arriving at n
ForwardedAfter(tr, n, i) ==
    {j \in (i + 1)..Len(tr) :
        /\ tr[j].call = "on_buffer"
        /\ <<tr[j].elem, tr[j].pad>> \in PeersOf(n)
        /\ \A k \in (i + 1)..(j - 1) : ~(tr[k].call = "on_buffer" /\ tr[k].elem = n)}

\* C11: in a run, every buffer that arrives at an element of the narrator
\* family and is processable under the caps that element most recently
\* received in a caps event is narrated: what its linked peer is handed next
\* is a narration, never the buffer itself - for the first buffer after a
\* caps event and for every later one.
C11_UpstreamCapsDecide ==
    \A i \in DOMAIN trace :
        (/\ trace[i].call = "on_buffer"
         /\ kind[trace[i].elem] \in NarratorFamily
         /\ PeersOf(trace[i].elem) # {}
         /\ ProcessableUnder(trace[i].elem, LatestCaps(trace, trace[i].elem, i),
                             trace[i].payload)) =>
            /\ ForwardedAfter(trace, trace[i].elem, i) # {}
            /\ \A j \in ForwardedAfter(trace, trace[i].elem, i) : IsNarration(trace[j].payload)

(***************************************************************************)
(* Negotiation policies                                                    *)
(***************************************************************************)
\* the element types whose handle_event rejects caps with CapsNegotiationError
StrictKinds == {"extractor"}

\* the element of pad q finds the caps it holds for q, or the buffer, not to
\* be what it works on
Incompatible(q, buffer) ==
    LET caps == PadAt(pads, q).caps
    IN  \/ kind[q[1]] = "extractor" /\ ~ExtractorCanProcess(caps, buffer)
        \/ /\ kind[q[1]] = "mbox_parser"
           /\ \/ ~IsCaps(caps)
              \/ caps.name # "application-mbox"
              \/ ~(buffer.tag = "dict" /\ "uri" \in buffer.keys)
        \/ Rejects(q, buffer)

\* C12: a buffer that arrives at a TripleExtractor, an MboxParser or a
\* narrator and is incompatible with the caps held is never dropped in
\* silence: the call raises CapsNegotiationError, or - in an element type
\* that does not raise that error at caps-event time - the original payload
\* is handed to every linked peer of the element's source pads.
C12_NoSilentDrop ==
    [][ (/\ last'.op = "push"
         /\ Arrives(last')
         /\ Incompatible(ArrivalPad(last'), last'.buffer)) =>
          LET n == ArrivalPad(last')[1]
          IN  \/ last'.err = ErrNegotiation
              \/ /\ kind[n] \notin StrictKinds
                 /\ \A r \in PeersOf(n) :
                      \E k \in Deliveries(trace', r) : trace'[k].payload = last'.buffer
      ]_vars

(***************************************************************************)
(* Sources                                                                 *)
(***************************************************************************)
\* the source pads of element e
SrcPadsOf(e) == {k \in DOMAIN pads[e] : pads[e][k].direction = SRC}

\* the positions of the trace at which a caps event carrying caps is handed
\* to pad r
CapsEvents(tr, r, caps) ==
    {j \in InvocationsOn(tr, "handle_event", r[1]) :
        tr[j].pad = r[2] /\ tr[j].event = "caps" /\ tr[j].payload = caps}

\* two Caps of the same type, whatever parameters were merged into them
SameType(a, b) ==
    IsCaps(a) /\ IsCaps(b) /\ a.media_type = b.media_type /\ a.name = b.name /\ a.uri = b.uri

\* the caps detection yields in the environment env: those of the first
\* matching detector, the classifier's when no detector matches
DetectedIn(env) ==
    IF IsCaps(Detect(env.chain).caps) THEN Detect(env.chain).caps ELSE CLASSIFIER_CAPS

\* C13: in process() of a TimeSeriesDataSource or DiscreteDataSource no
\* buffer reaches the peer of a source pad before the caps event for that
\* pad, carrying the caps stored on the pad, has reached it, and no pad
\* gets more than one buffer; when process() returns, every source pad holds
\* the detected caps, and its peer has received exactly one caps event with
\* them and after it exactly one buffer.
C13_CapsBeforeBuffer ==
    last.op = "process" =>
        \A k \in SrcPadsOf(last.elem) :
            LET me == pads[last.elem][k]
                r == me.peer
            IN  /\ r # NoPeer =>
                     /\ Cardinality(Deliveries(trace, r)) <= 1
                     /\ \A i \in Deliveries(trace, r) :
                            \E j \in CapsEvents(trace, r, me.caps) : j < i
                /\ last.err = NoError =>
                     /\ r # NoPeer
                     /\ SameType(me.caps, DetectedIn(last.env))
                     /\ Cardinality(CapsEvents(trace, r, me.caps)) = 1
                     /\ Cardinality(Deliveries(trace, r)) = 1

\* process() has returned on a source with two linked source pads
C13_PushedOnBoth ==
    /\ last.op = "process"
    /\ last.err = NoError
    /\ Cardinality(SrcPadsOf(last.elem)) = 2
    /\ \A k \in SrcPadsOf(last.elem) :
           Cardinality(Deliveries(trace, pads[last.elem][k].peer)) = 1

\* the positions of the trace at which the classifier is asked
ClassifierCalls(tr) == {i \in DOMAIN tr : tr[i].call = "classify"}

\* the positions of the trace at which a buffer is delivered
BufferCalls(tr) == {i \in DOMAIN tr : tr[i].call = "on_buffer"}

\* the positions of the trace at which a caps event is delivered
CapsCalls(tr) == {i \in DOMAIN tr : tr[i].call = "handle_event" /\ tr[i].event = "caps"}

\* C14: in one process() of a source that has read its file, the classifier
\* is asked exactly once when no detector matches and a classifier is
\* configured, and not at all otherwise.  When a detector matched, the caps
\* sent are that detector's and every payload says type_source "header";
\* when the classifier answered, the caps sent are the classifier's (a
\* DiscreteDataSource merges the file's identity into their parameters) and
\* every payload says "ollama"; when the classifier fails, process() fails
\* with TypeFinderError, no pad's caps change and no caps event or buffer
\* is delivered.
C14_ClassifierFallback ==
    [][ last'.op = "process" =>
          LET env == last'.env
              matched == IsCaps(Detect(env.chain).caps)
              asked == env.exists /\ ~matched /\ env.clf # "unconfigured"
          IN  /\ Cardinality(ClassifierCalls(trace')) = IF asked THEN 1 ELSE 0
              /\ (env.exists /\ matched) =>
                    /\ \A i \in BufferCalls(trace') : trace'[i].payload.type_source = "header"
                    /\ \A i \in CapsCalls(trace') :
                           SameType(trace'[i].payload, Detect(env.chain).caps)
              /\ (asked /\ env.clf \notin OllamaErrors) =>
                    /\ \A i \in BufferCalls(trace') : trace'[i].payload.type_source = "ollama"
                    /\ \A i \in CapsCalls(trace') : SameType(trace'[i].payload, CLASSIFIER_CAPS)
                    /\ kind[last'.elem] = "stream_source" =>
                           \A i \in CapsCalls(trace') : trace'[i].payload = CLASSIFIER_CAPS
              /\ (asked /\ env.clf \in OllamaErrors) =>
                    /\ last'.err = ErrTypeFinderOllama
                    /\ pads' = pads /\ ecaps' = ecaps /\ outputs' = outputs
                    /\ BufferCalls(trace') = {} /\ CapsCalls(trace') = {}
      ]_vars

\* the classifier has answered and its caps and a payload marked "ollama"
\* have gone out on a source pad
C14_Classified ==
    /\ last.op = "process"
    /\ last.err = NoError
    /\ ClassifierCalls(trace) # {}
    /\ \E i \in BufferCalls(trace) : trace[i].payload.type_source = "ollama"
    /\ \E i \in CapsCalls(trace) : SameType(trace[i].payload, CLASSIFIER_CAPS)

\* the classifier has failed in a process() on a source whose pads hold
\* caps from an earlier call
C14_ClassifierFailed ==
    /\ last.op = "process"
    /\ last.err = ErrTypeFinderOllama
    /\ \E k \in SrcPadsOf(last.elem) : IsCaps(pads[last.elem][k].caps)

\* the environments in which detection is exhausted: the file is there, no
\* detector matches it and no classifier is configured
ExhaustedEnvs ==
    {env \in SourceEnvs :
        env.exists /\ ~IsCaps(Detect(env.chain).caps) /\ env.clf = "unconfigured"}

\* C15: when run() comes to a source, then in every environment in which
\* no detector matches and no classifier is configured process() raises the
\* detection-exhausted TypeFinderError having changed no pad, no element
\* caps and no output and having called no handler; and whenever that error
\* is raised in a run, it is the error run() ends with, and the step that
\* raised it left every pad, every element's caps and every output as they
\* were and logged nothing but the process() call itself.
C15_DetectionExhausted ==
    [][ (/\ pc = "running"
         /\ runIdx <= Len(pipe.elements)
         /\ kind[ElementAt(runIdx)] \in SourceKinds) =>
          LET e == ElementAt(runIdx)
              entered == Append(trace, Call("process", <<e, 0>>, "", NoneV))
          IN  /\ \A env \in ExhaustedEnvs :
                    LET st == Process([CallState EXCEPT !.trace = trace, !.raised = raised],
                                      env, e)
                    IN  /\ st.err = ErrExhausted
                        /\ st.pads = pads /\ st.ecaps = ecaps /\ st.outputs = outputs
                        /\ st.trace = entered
              /\ (\E r \in DOMAIN raised' : r > Len(raised) /\ raised'[r] = ErrExhausted) =>
                    /\ last'.op = "run" /\ last'.err = ErrExhausted
                    /\ pc' = "idle"
                    /\ pads' = pads /\ ecaps' = ecaps /\ outputs' = outputs
                    /\ trace' = entered
      ]_vars

\* a run over a source and the elements linked after it has ended with the
\* detection-exhausted error
C15_Exhausted ==
    /\ last.op = "run"
    /\ last.err = ErrExhausted
    /\ Len(pipe.elements) >= 2
    /\ kind[pipe.elements[1]] \in SourceKinds

(***************************************************************************)
(* The tools                                                               *)
(***************************************************************************)
\* the pipeline is the one a tool builds: source, (parser,) narrator,
\* TripleExtractor, SilentSink
ToolPipeline ==
    /\ pipe.built
    /\ pipe.elements = AllElements
    /\ \E e \in Elems : kind[e] = "extractor"

\* the narrator of the pipeline
NarratorOfTool == CHOOSE e \in Elems : kind[e] \in NarratorFamily

\* the file is one the tool is made for and the language model answers:
\* the detected caps are caps the narrator processes
GoodInput(env) ==
    /\ env.exists
    /\ env.ttl = "text"
    /\ LET caps == Detect(env.chain).caps
       IN  /\ IsCaps(caps)
           /\ \/ kind[NarratorOfTool] = "text_narrator" /\ caps.name = "document"
              \/ kind[NarratorOfTool] = "image_narrator" /\ caps.name = "image-photo"
              \/ /\ kind[NarratorOfTool] = "mailbox_narrator"
                 /\ caps.name = "application-mbox"
                 /\ env.mailfile /\ env.msgs >= 1

\* C16: run() on the pipeline of text2spo, image2spo or mbox2spo, with an
\* input the narrator can process and a language model that answers, ends
\* without error, has handed a narration to TripleExtractor.on_buffer and
\* returns a non-empty result.
C16_ToolRuns ==
    (last.op = "run" /\ ToolPipeline /\ GoodInput(last.env)) =>
        /\ last.err = NoError
        /\ \E i \in BufferCalls(trace) :
               kind[trace[i].elem] = "extractor" /\ IsNarration(trace[i].payload)
        /\ last.ret # NoneV

\* the caps a narrator announces for its narrations
OutputCaps == {NARRATION_CAPS, TEXT_CAPS}

\* C17: a payload that is not a narration is never delivered to a sink pad
\* while that pad holds a narrator's output caps.  (For a payload that is
\* not text SilentSink appends the summary of the caps its pad holds at the
\* delivery, so the outputs show which caps went with which payload.)
C17_CapsMatchPayload ==
    \A e \in Elems :
        kind[e] = "sink" =>
            \A i \in DOMAIN outputs[e] :
                outputs[e][i].tag = "summary" => outputs[e][i].caps \notin OutputCaps

\* HeaderAnalyzer().detect has been called on the sample
Sniffed == last.op = "detect" /\ sample \in Samples

\* C18: with the default detectors, a sample that begins with a binary
\* signature is classified by that signature whatever follows: "%PDF-"
\* gives the document caps; the PNG, JPEG and GIF magic give the image
\* caps; "ftyp" at offset 4 gives the video caps; the ELF magic gives the
\* binary caps.
C18_SignatureDecides ==
    Sniffed =>
        /\ _is_pdf(sample) => detres.caps = DOCUMENT_CAPS
        /\ _is_png(sample) \/ _is_jpeg(sample) \/ _is_gif(sample) => detres.caps = IMAGE_CAPS
        /\ _is_mp4(sample) => detres.caps = VIDEO_CAPS
        /\ _is_elf(sample) => detres.caps = BINARY_CAPS

\* C19: with the default detectors, a sample that starts with the ZIP magic
\* and contains an Office-package marker gets the document caps; one that
\* starts with the ZIP magic and contains no such marker gets the binary
\* caps.
C19_OfficeBeforeZip ==
    Sniffed /\ _is_zip(sample) =>
        IF \E marker \in OfficeMarkers : Contains(sample, marker)
        THEN detres.caps = DOCUMENT_CAPS
        ELSE detres.caps = BINARY_CAPS

\* the first line of the sample is the mbox separator line
SeparatorLine(sample_) ==
    /\ StartsWith(sample_, "separator")
    /\ Len(sample_) = 1 \/ sample_[2] \in {"lf", "crlf"}

\* Subject: and From: text in a sample that does not start with "From "
PlainHeaders(sample_) ==
    /\ _is_eml(sample_)
    /\ ~StartsWith(sample_, "separator") /\ ~StartsWith(sample_, "from")

\* C20: with the default detectors, a sample whose first line is an mbox
\* separator is classified as application-mbox even when Subject:/From:
\* lines follow it, and a sample with Subject: and From: text but no
\* separator line as message-rfc822 (samples with the calendar markers,
\* which the calendar detector takes first, left aside).
C20_MailboxOrMessage ==
    Sniffed /\ ~_is_calendar(sample) =>
        /\ SeparatorLine(sample) => detres.caps = MBOX_CAPS
        /\ PlainHeaders(sample) => detres.caps = EML_CAPS

\* C21: with the default detectors, a sample that contains both the
\* begin:vcalendar and the end:vcalendar marker, wherever they lie in the
\* sample, is classified as calendar.
C21_CalendarFirst ==
    Sniffed /\ Contains(sample, "begin:vcalendar") /\ Contains(sample, "end:vcalendar") =>
        detres.caps = CALENDAR_CAPS

\* none of the detectors placed before the last one matches the sample
OnlyDensityLeft(data) ==
    \A k \in 1..(Len(DEFAULT_DETECTORS(data)) - 1) : DEFAULT_DETECTORS(data)[k].outcome = "F"

\* the printable bytes are at least 85 % of the first 2048 bytes
Dense(data) == PrintableFrom(data, 1) * 100 >= DensityPercent * WindowSize(data)

\* C22: with the default detectors, for a non-empty sample that no detector
\* before the text-density detector matches, detect returns the document
\* caps if and only if at least 85 % of the first 2048 bytes are printable,
\* and none otherwise.
C22_DensityDecides ==
    Sniffed /\ sample # <<>> /\ OnlyDensityLeft(sample) =>
        detres.caps = IF Dense(sample) THEN DOCUMENT_CAPS ELSE NoneV

\* in the pad table ps every peer is a pad of the opposite direction that
\* names the pad as its own peer
PeersPaired(ps) ==
    \A e \in DOMAIN ps : \A i \in DOMAIN ps[e] :
        LET q == ps[e][i].peer
        IN  q # NoPeer =>
              /\ q[1] \in DOMAIN ps /\ q[2] \in DOMAIN ps[q[1]]
              /\ ps[q[1]][q[2]].peer = <<e, i>>
              /\ ps[q[1]][q[2]].direction # ps[e][i].direction

\* C23: after every request_pad, link, link_many and Pipeline call the peer
\* relation is symmetric (so that no pad is the peer of two pads) and joins
\* pads of opposite directions only, and a pad that had a peer before the
\* call has the same peer after it.
C23_LinksSingleUse ==
    [][ /\ PeersPaired(pads')
        /\ \A e \in Elems : \A i \in DOMAIN pads[e] :
             pads[e][i].peer # NoPeer =>
                i \in DOMAIN pads'[e] /\ pads'[e][i].peer = pads[e][i].peer
      ]_vars

\* a link has been asked for a pad that is linked to a third pad, and that
\* pad is still paired with its peer
C23_RelinkRefused ==
    /\ last.op = "link"
    /\ last.err # NoError
    /\ \E p \in {last.a, last.b} :
         /\ PadAt(pads, p).peer \notin {NoPeer, last.a, last.b}
         /\ PadAt(pads, PadAt(pads, p).peer).peer = p

\* the class of element e takes pads of the direction
Provides(e, direction) ==
    /\ kind[e] \in SourceKinds => direction = SRC
    /\ kind[e] = "sink" => direction = SINK

\* the name a pad gets when the caller supplies none: the direction tag
\* followed by the number of pads, in decimal
DerivedNames ==
    [d \in Directions |-> [n \in 0..MaxNamedPads |->
        IF d = SRC THEN <<"src0", "src1", "src2", "src3">>[n + 1]
        ELSE <<"sink0", "sink1", "sink2", "sink3">>[n + 1]]]

\* C24: request_pad(direction, name), on an element whose class takes pads
\* of that direction, appends exactly one pad at the end of the element's
\* pad list, with the direction asked for, no peer and no caps, and leaves
\* every other pad and every other element as it was; when no name is
\* supplied the pad is named by the direction tag followed by the number of
\* pads the element had before the call.
C24_RequestPadAppends ==
    [][ (last'.op = "request_pad" /\ Provides(last'.elem, last'.direction)) =>
          LET e == last'.elem
              n == Len(pads[e])
          IN  /\ last'.err = NoError
              /\ Len(pads'[e]) = n + 1
              /\ SubSeq(pads'[e], 1, n) = pads[e]
              /\ \A f \in Elems \ {e} : pads'[f] = pads[f]
              /\ pads'[e][n + 1].direction = last'.direction
              /\ pads'[e][n + 1].peer = NoPeer
              /\ pads'[e][n + 1].caps = NoneV
              /\ last'.name = <<>> => pads'[e][n + 1].name = DerivedNames[last'.direction][n]
              /\ trace' = <<>>
      ]_vars

\* a sink pad requested without a name on an element with one pad is
\* named "sink1"
C24_Sink1 ==
    /\ last.op = "request_pad"
    /\ last.err = NoError
    /\ last.name = <<>>
    /\ last.direction = SINK
    /\ Len(pads[last.elem]) = 2
    /\ pads[last.elem][2].name = "sink1"

\* C25: a pad requested without a name gets a name that no other pad of
\* the element has, whatever names the callers of the earlier request_pad
\* calls on that element chose.
C25_DerivedNameFresh ==
    [][ (last'.op = "request_pad" /\ last'.err = NoError /\ last'.name = <<>>) =>
          LET e == last'.elem
          IN  \A i \in DOMAIN pads[e] : pads[e][i].name # pads'[e][Len(pads'[e])].name
      ]_vars

\* every pad of a SourceElement in ps is a source pad and every pad of a
\* SinkElement a sink pad
RolesKept(ps) ==
    \A e \in Elems : \A i \in DOMAIN ps[e] : Provides(e, ps[e][i].direction)

\* C26: request_pad on a SourceElement for the sink direction, and on a
\* SinkElement for the source direction, fails with the ValueError of the
\* class and adds no pad; and after every request_pad, link, link_many and
\* Pipeline call every pad of a SourceElement is a source pad and every pad
\* of a SinkElement is a sink pad.
C26_RoleRestriction ==
    [][ /\ RolesKept(pads')
        /\ (last'.op = "request_pad" /\ ~Provides(last'.elem, last'.direction)) =>
              /\ last'.err = IF kind[last'.elem] = "sink" THEN ErrSinkOnly ELSE ErrSourceOnly
              /\ pads' = pads
      ]_vars

\* a SinkElement that owns a sink pad has refused a source pad
C26_SinkRefused ==
    /\ last.op = "request_pad"
    /\ kind[last.elem] = "sink"
    /\ last.direction = SRC
    /\ last.err = ErrSinkOnly
    /\ Len(pads[last.elem]) > 0

\* the deliveries send_event(event, payload) on element e is to make: one
\* handle_event per linked source pad, for the peer pad, in pad order
EventDeliveries(e, event, payload) ==
    LET linked == SelectSeq(pads[e], LAMBDA pad : pad.direction = SRC /\ pad.peer # NoPeer)
    IN  [i \in 1..Len(linked) |-> Call("handle_event", linked[i].peer, event, payload)]

\* C27: send_event(event, payload) calls handle_event once for the peer pad
\* of every linked source pad of the element, in pad-creation order, with
\* the event and payload given, and calls nothing for sink pads or unlinked
\* pads; when a peer's handler raises, the error reaches the caller and the
\* deliveries made are those up to that peer.  The caps of the element's
\* own pads stay as they were.
C27_SendEvent ==
    [][ last'.op = "send_event" =>
          LET e == last'.elem
              due == EventDeliveries(e, last'.event, last'.payload)
          IN  /\ Len(trace') <= Len(due)
              /\ trace' = SubSeq(due, 1, Len(trace'))
              /\ last'.err = NoError => trace' = due
              /\ last'.err # NoError => trace' # <<>>
              /\ \A i \in DOMAIN pads[e] : pads'[e][i].caps = pads[e][i].caps
      ]_vars

\* send_event has returned after delivering a caps event to two peers
C27_TwoPeers ==
    /\ last.op = "send_event"
    /\ last.err = NoError
    /\ Len(trace) = 2
    /\ trace[1].pad # trace[2].pad

\* send_event on an element with a linked sink pad has delivered nothing
C27_SinkPadSkipped ==
    /\ last.op = "send_event"
    /\ trace = <<>>
    /\ \E i \in DOMAIN pads[last.elem] :
         pads[last.elem][i].direction = SINK /\ pads[last.elem][i].peer # NoPeer

\* _can_process is true for the buffer on pad q, whatever the files on disk
Accepts(q, buffer) ==
    /\ kind[q[1]] \in NarratorKinds
    /\ \A env \in FlowEnvs : CanProcess(env, q[1], UpstreamCaps(q), buffer)

\* the positions of the trace at which the caps event with the narration
\* caps is handed to pad r
Announcements(tr, r) ==
    {k \in InvocationsOn(tr, "handle_event", r[1]) :
        tr[k].pad = r[2] /\ tr[k].event = "caps" /\ tr[k].payload = NARRATION_CAPS}

\* the calls made downstream of the element that got the buffer
Downstream(tr) == {k \in DOMAIN tr : k > 1}

C28_NothingNarrated ==
    /\ last.op = "on_buffer"
    /\ last.err = NoError
    /\ kind[last.pad[1]] = "text_narrator"
    /\ IsCaps(ecaps[last.pad[1]])
    /\ last.buffer.tag = "str"
    /\ Len(trace) = 1

\* the classes whose handle_event forwards a caps event
Forwarders == NarratorKinds \cup {"image_narrator"}

\* the pads a caps event handed to element e is to reach: the peers of its
\* source pads and, where such a peer belongs to a forwarding element, the
\* peers of that element's source pads
ReachedFrom(e) ==
    PeersOf(e) \cup UNION {PeersOf(r[1]) : r \in {q \in PeersOf(e) : kind[q[1]] \in Forwarders}}

\* the positions of the trace at which pad r is handed the event
Handed(tr, r, event, payload) ==
    {k \in InvocationsOn(tr, "handle_event", r[1]) :
        tr[k].pad = r[2] /\ tr[k].event = event /\ tr[k].payload = payload}

\* the element whose source pad is linked to pad r
Upstream(r) == PadAt(pads, r).peer[1]

\* the positions of the trace at which element x is handed the event, on
\* any of its pads
HandedTo(tr, x, event, payload) ==
    {k \in InvocationsOn(tr, "handle_event", x) :
        tr[k].event = event /\ tr[k].payload = payload}

\* C29: a caps event with a Caps payload, handed to a narrator on a pad,
\* leaves the caps on that pad and as the narrator's upstream caps and is
\* handed on, with the same payload, at most once to each linked peer of
\* the narrator's source pads, whose pad then holds those caps; when the
\* call returns every such peer has been handed it exactly once, and a
\* narrator among the peers has in turn handed it once to each of its own
\* peers for every time it received it, so the caps have reached the peers
\* of that narrator too.  With a payload that is not a Caps the call fails
\* with the TypeError, calls no handler and changes no caps.
C29_CapsForwarded ==
    [][ (/\ last'.op = "handle_event"
         /\ last'.event = "caps"
         /\ kind[last'.pad[1]] \in Forwarders) =>
          LET p == last'.pad
              e == p[1]
              caps == last'.payload
          IN  IF IsCaps(caps)
              THEN /\ PadAt(pads', p).caps = caps
                   /\ ecaps'[e] = caps
                   /\ \A k \in Downstream(trace') :
                        /\ trace'[k].call = "handle_event"
                        /\ trace'[k].event = "caps"
                        /\ trace'[k].payload = caps
                        /\ <<trace'[k].elem, trace'[k].pad>> \in ReachedFrom(e)
                        /\ PadAt(pads', <<trace'[k].elem, trace'[k].pad>>).caps = caps
                   /\ Cardinality(HandedTo(trace', e, "caps", caps)) = 1
                   /\ \A r \in ReachedFrom(e) :
                        Cardinality(Handed(trace', r, "caps", caps) \cap Downstream(trace'))
                            <= Cardinality(HandedTo(trace', Upstream(r), "caps", caps))
                   /\ last'.err = NoError =>
                        \A r \in ReachedFrom(e) :
                           /\ Cardinality(Handed(trace', r, "caps", caps) \cap Downstream(trace'))
                                = Cardinality(HandedTo(trace', Upstream(r), "caps", caps))
                           /\ PadAt(pads', r).caps = caps
              ELSE /\ last'.err = ErrCapsType
                   /\ Len(trace') = 1
                   /\ pads' = pads
                   /\ ecaps' = ecaps
      ]_vars

\* the caps handed to the first of two narrators in a row have reached
\* the element after the second
C29_ThroughTwo ==
    /\ last.op = "handle_event"
    /\ last.err = NoError
    /\ IsCaps(last.payload)
    /\ Len(trace) = 3
    /\ kind[trace[1].elem] \in Forwarders
    /\ kind[trace[2].elem] \in Forwarders
    /\ PadAt(pads, <<trace[3].elem, trace[3].pad>>).caps = last.payload

\* a narrator with a linked peer has refused a caps event without a Caps
C29_TypeError ==
    /\ last.op = "handle_event"
    /\ last.err = ErrCapsType
    /\ kind[last.pad[1]] \in Forwarders
    /\ PeersOf(last.pad[1]) # {}

\* C30: merge_params is non-destructive: for every Caps c and parameter map
\* p, c.merge_params(p) returns a Caps with c's media_type and name whose
\* parameters are c's parameters with every key of p overridden or added by
\* p's value, and c's own media_type, name and parameters are the same after
\* the call as before.
C30_MergeParams ==
    last.op = "merge_params" =>
        /\ CapsMediaType(last.ret) = CapsMediaType(last.before)
        /\ CapsName(last.ret) = CapsName(last.before)
        /\ CapsParams(last.ret) = Update(CapsParams(last.before), sample.new_params)
        /\ CapsMediaType(last.self) = CapsMediaType(last.before)
        /\ CapsName(last.self) = CapsName(last.before)
        /\ CapsParams(last.self) = CapsParams(last.before)

\* the receiver's half of C30 on its own: media_type, name and parameters of
\* c are the same after the call as before
C30_ReceiverKept ==
    last.op = "merge_params" =>
        /\ CapsMediaType(last.self) = CapsMediaType(last.before)
        /\ CapsName(last.self) = CapsName(last.before)
        /\ CapsParams(last.self) = CapsParams(last.before)

\* a one-element list merged under a generic key comes back as its element
C30_ListFlattened ==
    /\ last.op = "merge_params"
    /\ "fingerprint" \in DOMAIN sample.new_params
    /\ sample.new_params["fingerprint"] = PyList(<<"a">>)
    /\ CapsParams(last.ret)["fingerprint"] = PyStr("a")

\* what can be observed of a Caps object
Observed(c) == <<CapsMediaType(c), CapsName(c), CapsParams(c)>>

\* C31: no operation of a pipeline run changes an existing Caps: after a
\* run every Caps object that existed before it (the Caps of the detectors,
\* the Caps stored on pads by earlier runs) has the media_type, name and
\* parameters it had before, and the caps a source has set on its pads are
\* an object the run constructed, never the detector's own.
C31_CapsImmutable ==
    [][ last'.op = "run" =>
          /\ Len(sample') >= Len(sample)
          /\ \A i \in DOMAIN sample : Observed(sample'[i]) = Observed(sample[i])
          /\ \A e \in Elems : \A i \in DOMAIN pads'[e] :
               (/\ kind[e] = "source"
                /\ IsCaps(pads'[e][i].caps)
                /\ \E k \in DOMAIN trace' : trace'[k].call = "handle_event")
               => pads'[e][i].caps.id > Len(sample)
      ]_vars

\* the document detector's Caps have been enriched in two runs: two further
\* objects carry a fingerprint, the detector's own carries none
C31_EnrichedTwice ==
    /\ last.op = "run"
    /\ last.err = NoError
    /\ Len(sample) >= Len(ModuleObjects) + 2
    /\ "fingerprint" \notin DOMAIN CapsParams(sample[1])
    /\ Cardinality({i \in DOMAIN sample :
                      /\ CapsName(sample[i]) = "document"
                      /\ "fingerprint" \in DOMAIN CapsParams(sample[i])}) = 2

\* the parser has built its output caps from the caps on its sink pad: a
\* new object with the count, the sink pad's own without it
C31_OutputCapsBuilt ==
    /\ last.op = "run"
    /\ \E e \in Elems :
         /\ kind[e] = "mbox_parser"
         /\ Len(pads[e]) = 2
         /\ IsCaps(pads[e][1].caps) /\ IsCaps(pads[e][2].caps)
         /\ pads[e][1].caps # pads[e][2].caps
         /\ "count" \notin DOMAIN CapsParams(sample[pads[e][1].caps.id])
         /\ CapsParams(sample[pads[e][2].caps.id])["count"] = PyStr(ToString(MaxMsgs))
         /\ CapsParams(sample[pads[e][2].caps.id])["fingerprint"] =
              CapsParams(sample[pads[e][1].caps.id])["fingerprint"]

\* C32: a classifier failure that surfaces from a source's process() keeps
\* its kind: when the classifier cannot be reached process() ends with the
\* unavailable error, when its answer cannot be interpreted process() ends
\* with the malformed-response error, and in both cases the classifier was
\* asked once.
C32_ClassifierKinds ==
    (/\ last.op = "process"
     /\ ClassifierCalls(trace) # {}
     /\ last.env.clf \in OllamaErrors) =>
        /\ last.err = last.env.clf
        /\ Cardinality(ClassifierCalls(trace)) = 1

\* the classifier has failed, one way or the other, and the error process()
\* ends with does not say which
C32_SameError ==
    /\ last.op = "process"
    /\ last.env.clf \in {ErrOllamaUnavailable, ErrOllamaMalformed}
    /\ raised = <<last.env.clf, ErrTypeFinderOllama>>
    /\ last.err = ErrTypeFinderOllama

C34_Entry(caps, payload) ==
    IF payload.tag = "str" THEN payload
    ELSE IF payload.tag = "dict" /\ "image_description" \in payload.keys
         THEN StrV("image_description", 80)
    ELSE SummarizeCaps(caps, IF payload.tag = "dict" THEN payload.type_source ELSE "none")

\* the on_buffer calls of a trace that were made on element e
BuffersAt(tr, e) == {i \in 1..Len(tr) : tr[i].call = "on_buffer" /\ tr[i].elem = e}

\* the call the trace ends with is an on_buffer call on e that failed
FailedAt(tr, err, e) ==
    /\ err = ErrSinkNoCaps
    /\ tr # <<>>
    /\ tr[Len(tr)].call = "on_buffer"
    /\ tr[Len(tr)].elem = e

\* C34: every on_buffer call on a sink's pad that holds Caps appends exactly
\* one entry to the sink's outputs, after the earlier entries, which stay
\* as they are, also from one run of the pipeline to the next; the entry is
\* the text payload, the narration of a record that has one, or else the
\* summary of the pad's caps.  A call on a pad without Caps fails and leaves
\* the outputs as they were.  output is None iff nothing was recorded, and
\* else the entries in arrival order.
C34_SinkRecords ==
    [][ /\ \A e \in Elems : kind[e] = "sink" =>
             /\ Len(outputs'[e]) =
                   Len(outputs[e]) + Cardinality(BuffersAt(trace', e))
                   - (IF FailedAt(trace', last'.err, e) THEN 1 ELSE 0)
             /\ SubSeq(outputs'[e], 1, Len(outputs[e])) = outputs[e]
        /\ (last'.op = "on_buffer" /\ kind[last'.pad[1]] = "sink") =>
             IF IsCaps(PadAt(pads, last'.pad).caps)
             THEN /\ last'.err = NoError
                  /\ outputs' = [outputs EXCEPT ![last'.pad[1]] =
                        Append(@, C34_Entry(PadAt(pads, last'.pad).caps, last'.buffer))]
             ELSE /\ last'.err = ErrSinkNoCaps
                  /\ outputs' = outputs
        /\ (last'.op = "run" /\ last'.err = NoError /\ pipe.elements # <<>>) =>
             LET outs == outputs'[pipe.elements[Len(pipe.elements)]]
             IN  /\ (last'.ret = NoneV) <=> (outs = <<>>)
                 /\ outs # <<>> => last'.ret.lines = outs
      ]_vars

\* a second run has added its entry after the entry of the first
C34_TwoRuns ==
    /\ last.op = "run"
    /\ last.err = NoError
    /\ nops = 2
    /\ Len(outputs[2]) = 2
    /\ last.ret.tag = "joined"
    /\ last.ret.lines = outputs[2]

\* a narration recorded after an earlier entry
C34_NarrationRecorded ==
    /\ last.op = "on_buffer"
    /\ last.err = NoError
    /\ Len(outputs[2]) = 2
    /\ outputs[2][2] = StrV("image_description", 80)

\* a buffer on a pad without Caps, after a run has recorded an entry
C34_NoCapsRefused ==
    /\ last.op = "on_buffer"
    /\ last.err = ErrSinkNoCaps
    /\ Len(outputs[2]) = 1

\* the handler calls of a trace that were made on pad q
CallsOn(tr, q) ==
    SelectSeq(tr, LAMBDA c : c.elem = q[1] /\ c.pad = q[2]
                             /\ c.call \in {"handle_event", "on_buffer"})

\* the caps event and the messages of a mailbox of n messages, as pad q
\* is to receive them
Mailbox(q, caps, n) ==
    <<Call("handle_event", q, "caps", caps)>>
    \o [m \in 1..n |-> Call("on_buffer", q, "", BytesV(m))]

C35_MailboxDelivered ==
    /\ last.op = "on_buffer"
    /\ last.env.msgs = MaxMsgs
    /\ kind[3] = "sink"
    /\ Len(pads[3]) = 1
    /\ CallsOn(trace, <<3, 1>>)
         = Mailbox(<<3, 1>>, Caps("application/mbox", "application-mbox", MBOX_CAPS.uri,
                                  [count |-> MaxMsgs, fingerprint |-> "sha256"]), MaxMsgs)
    /\ Len(outputs[3]) = MaxMsgs

\* the parser's source pad holds output caps that count the messages, and
\* the extractor behind it has received none of them
C35_NothingPushed ==
    /\ last.op = "on_buffer"
    /\ last.err = NoError
    /\ last.env.msgs = MaxMsgs
    /\ kind[3] = "extractor"
    /\ \E k \in 1..Len(pads[2]) :
          /\ pads[2][k].direction = SRC
          /\ pads[2][k].peer # NoPeer
          /\ IsCaps(pads[2][k].caps)
          /\ pads[2][k].caps.params.count = MaxMsgs
    /\ \A i \in 1..Len(trace) : trace[i].call = "on_buffer" => trace[i].elem = 2

\* C36: on a Buffer over n bytes, after any reads and rewinds, the position
\* lies in 0..n, remaining is n - position and the data is unchanged;
\* read(size) returns the bytes from the position to min(position + size, n)
\* and advances the position by the number of bytes returned; read() and
\* read of a negative size return the whole remainder; rewind() sets the
\* position to 0; the chunks returned since the last rewind, joined, are the
\* first `position` bytes of the data.
C36_BufferCursor ==
    [][ LET n == Len(sample._data)
            pos == sample._pos
        IN  /\ sample'._data = sample._data
            /\ sample'._pos \in 0..n
            /\ Remaining(sample') = n - sample'._pos
            /\ last'.read = SubSeq(sample._data, 1, sample'._pos)
            /\ last'.op = "read" =>
                 /\ sample'._pos = pos + Len(last'.ret)
                 /\ IF last'.size = <<>> \/ last'.size[1] < 0
                    THEN last'.ret = SubSeq(sample._data, pos + 1, n)
                    ELSE last'.ret = SubSeq(sample._data, pos + 1,
                                            Smaller(pos + last'.size[1], n))
                 /\ pos = n => last'.ret = <<>>
            /\ last'.op = "rewind" => sample'._pos = 0
      ]_vars

\* the last bytes of the data, returned by a read that asked for more than was left
C36_ReadPastEnd ==
    /\ last.op = "read"
    /\ last.size = <<MaxLen>>
    /\ Len(last.ret) = 1
    /\ Len(sample._data) = MaxLen
    /\ sample._pos = MaxLen
    /\ nops = MaxReads
    /\ last.read = sample._data

C37_MailboxDigest ==
    /\ last.op = "run"
    /\ last.err = NoError
    /\ last.env.uri = Uri(TRUE, <<"/", "a">>)
    /\ last.env.msgid
    /\ pipe.elements = <<1, 2>>
    /\ pads[1][1].caps.name = "application-mbox"
    /\ pads[1][1].caps.params.fingerprint = "sha256"

\* a file behind an escaped location was read and typed, and its caps
\* carry no fingerprint
C37_NoFingerprint ==
    /\ last.op = "run"
    /\ last.err = NoError
    /\ last.env.uri = Uri(TRUE, <<"/", "a", "%20", "b">>)
    /\ pipe.elements = <<1, 2>>
    /\ IsCaps(pads[1][1].caps)
    /\ pads[1][1].caps.params.fingerprint = ""
    /\ outputs[2] # <<>>

\* the values stored under key k, as a set
ValuesOf(c, k) == {c.props[k][i] : i \in 1..Len(c.props[k])}

\* same media type, same name, same parameters (the uri among them), the
\* values of a parameter compared as a set
SameStructure(a, b) ==
    /\ CapsMediaType(a) = CapsMediaType(b)
    /\ CapsName(a) = CapsName(b)
    /\ a.node = b.node
    /\ DOMAIN a.props = DOMAIN b.props
    /\ \A k \in DOMAIN a.props : ValuesOf(a, k) = ValuesOf(b, k)

\* C38: two Caps are equal iff they have the same media type, the same name
\* and the same parameters, the values of a multi-valued parameter in any
\* order; equality is reflexive and symmetric; and a Caps equals the result
\* of merging the empty parameter map into it.
C38_Equality ==
    /\ last.op = "eq" =>
          /\ last.ret <=> SameStructure(sample.a, sample.b)
          /\ last.reverse = last.ret
          /\ last.self
    /\ last.op = "eq_merged" => last.ret

\* the first three parts of C38 alone: structure decides, both ways round
C38_Structural ==
    last.op = "eq" =>
       /\ last.ret <=> SameStructure(sample.a, sample.b)
       /\ last.reverse = last.ret
       /\ last.self

\* two Caps that differ in the order of their extensions only are equal
C38_OrderIgnored ==
    /\ last.op = "eq"
    /\ last.ret
    /\ "extensions" \in DOMAIN sample.a.props
    /\ sample.a.props["extensions"] # sample.b.props["extensions"]

\* a Caps with an empty description differs from its merge with {}
C38_MergedDiffers ==
    /\ last.op = "eq_merged"
    /\ ~last.ret
    /\ sample.a.label = "text"
    /\ "description" \in DOMAIN sample.a.props
    /\ "description" \notin DOMAIN last.merged.props

\* a Caps without name and uri differs from its merge with {}
C38_BlankNodeNamed ==
    /\ last.op = "eq_merged"
    /\ ~last.ret
    /\ sample.a.node = BNode
    /\ sample.a.props = last.merged.props
    /\ last.merged.node = "b0"

\* the caps events of a trace before position i that were delivered on the
\* pad the call at position i was made on
CapsBefore(tr, i) ==
    {j \in 1..(i - 1) : /\ tr[j].call = "handle_event"
                        /\ tr[j].event = "caps"
                        /\ tr[j].elem = tr[i].elem
                        /\ tr[j].pad = tr[i].pad}

\* C39: in a run of a linear pipeline from a source through narrators, the
\* parser and the extractor to a final sink, every on_buffer call on a sink
\* pad comes after a caps event on that pad, in this run or an earlier one,
\* and the pad holds Caps; SilentSink.on_buffer never raises for want of
\* caps.
C39_CapsBeforeBuffer ==
    [][ (last'.op = "run" /\ pipe.elements # <<>>
         /\ kind[pipe.elements[Len(pipe.elements)]] = "sink") =>
          /\ \A i \in 1..Len(trace') : trace'[i].call = "on_buffer" =>
                LET q == <<trace'[i].elem, trace'[i].pad>>
                IN  PadAt(pads, q).direction = SINK =>
                       /\ CapsBefore(trace', i) # {} \/ IsCaps(PadAt(pads, q).caps)
                       /\ IsCaps(PadAt(pads', q).caps)
          /\ \A i \in 1..Len(raised') : raised'[i] # ErrSinkNoCaps
      ]_vars

\* a run has taken the messages of a mailbox through the parser and the
\* narrator to the sink
C39_BuffersAtSink ==
    /\ last.op = "run"
    /\ last.err = NoError
    /\ kind[2] = "mbox_parser"
    /\ kind[3] = "mailbox_narrator"
    /\ pipe.elements = AllElements
    /\ Cardinality({i \in 1..Len(trace) : trace[i].call = "on_buffer" /\ trace[i].elem = 4})
          = MaxMsgs
    /\ Len(outputs[4]) = MaxMsgs

\* the source pads of element e that are linked to nothing
Unlinked(e) ==
    {k \in 1..Len(pads[e]) : pads[e][k].direction = SRC /\ pads[e][k].peer = NoPeer}

\* the first of a non-empty set of pad indices
First(S) == CHOOSE k \in S : \A j \in S : k <= j

\* element e has announced caps during the step: a source pad's caps have
\* changed or a caps event has been delivered
Announced(e) ==
    \/ \E k \in 1..Len(pads[e]) :
          pads[e][k].direction = SRC /\ pads'[e][k].caps # pads[e][k].caps
    \/ \E i \in 1..Len(trace') : trace'[i].call = "handle_event"

\* the pads after the first unlinked source pad of e are as they were and
\* their peers have been handed nothing
RestUntouched(e) ==
    \A k \in (First(Unlinked(e)) + 1)..Len(pads[e]) :
       /\ pads'[e][k].caps = pads[e][k].caps
       /\ \A i \in 1..Len(trace') :
             <<trace'[i].elem, trace'[i].pad>> # pads[e][k].peer

C40_ExtractorStopped ==
    /\ last.op = "on_buffer"
    /\ last.err = ErrNotLinked
    /\ kind[1] = "extractor"
    /\ Len(pads[1]) = 3
    /\ pads[1][2].peer # NoPeer /\ pads[1][3].peer = NoPeer
    /\ pads[1][3].caps = TURTLE_CAPS
    /\ outputs[2] # <<>>

\* the parser's announcement has failed at its unlinked source pad and
\* on_buffer has returned as if nothing had happened
C40_ParserSilent ==
    /\ last.op = "on_buffer"
    /\ last.err = NoError
    /\ raised = <<ErrNotLinked>>
    /\ kind[1] = "mbox_parser"
    /\ \E k \in 1..Len(pads[1]) :
          pads[1][k].direction = SRC /\ pads[1][k].peer = NoPeer /\ IsCaps(pads[1][k].caps)

====
